---- MODULE Spec2Model ----
(***************************************************************************)
(* Billing core of Airchieve: recharge / subscription orders               *)
(* (app/services/payment_service.py), the points ledger                    *)
(* (app/services/points_service.py), the WeChat Pay endpoints              *)
(* (app/api/v1/payment_api.py, app/services/wechat_pay.py) and the         *)
(* writers of the users table in app/services/user_service.py.             *)
(*                                                                         *)
(* Every `await` on the database is a scheduling point of the asyncio      *)
(* event loop (and requests may also run in different worker processes),   *)
(* so a handler is modelled as a process whose steps are its database      *)
(* round trips.  A plain SELECT reads the committed row; SELECT ... FOR    *)
(* UPDATE takes the exclusive row lock of the user until the commit on     *)
(* MySQL and is a plain SELECT on SQLite (the comment in                   *)
(* consume_for_creation: with_for_update is a row lock on MySQL, ignored   *)
(* by SQLite).  At commit the ORM sends, as absolute values, the           *)
(* attributes whose value is not == the one the session loaded; an         *)
(* attribute assigned the value it was loaded with is not written.  The    *)
(* timestamp columns created_at / updated_at are left out of the rows.     *)
(* Time is counted in days; a DateTime column returns offset-naive         *)
(* values, while datetime.now(timezone.utc) is offset-aware: the two       *)
(* kinds are never ==, and comparing their order raises TypeError.         *)
(***************************************************************************)
EXTENDS Integers, Sequences, FiniteSets, TLC

VARIABLES
    users,                \* table users: id -> the columns of User that the
                          \* services of this model write
    user_points_log,      \* table user_points_log, in insertion order
    recharge_orders,      \* table recharge_orders: order_no -> row
    subscription_orders,  \* table subscription_orders: order_no -> row
    row_lock,             \* users row lock: id -> the transaction holding it
    dialect,              \* the database of settings.DATABASE_URL
    auto_increment,       \* the AUTO_INCREMENT counter of table users
    user_auth,            \* table user_auth: the login credentials
    hooks,                \* webhook requests: delivery -> handler state
    calls,                \* service calls and endpoints in flight: slot -> state
    last_call,            \* the last finished service call and its outcome
    now                   \* datetime.now(timezone.utc), in days

vars == <<users, user_points_log, recharge_orders, subscription_orders,
          row_lock, dialect, auto_increment, user_auth, hooks, calls,
          last_call, now>>

db == <<users, user_points_log, recharge_orders, subscription_orders>>

---------------------------------------------------------------------------
(* Bounds of the model *)

NumUsers == 1
MaxOrders == 2
MaxDeliveries == 2
MaxCalls == 2
MaxLog == 3
MaxNow == 40
TickDays == 20
MaxRegistrations == 2

(* Program constants *)

POINTS_PER_YUAN == 3
CREATION_COST == 10
PAGE_EDIT_COST == 1
DaysPerMonth == 30
DefaultFreeCreation == 1
NoTime == -1

None == "None"

Users == 1..NumUsers
UserIds == 1..(NumUsers + MaxRegistrations)
Deliveries == 1..MaxDeliveries
Callers == 1..MaxCalls
Dialects == {"sqlite", "mysql"}

RechargeNoPool == <<"RC1", "RC2", "RC3", "RC4">>
SubscriptionNoPool == <<"SUB1", "SUB2", "SUB3", "SUB4">>
RechargeNos == {RechargeNoPool[i] : i \in 1..MaxOrders}
SubscriptionNos == {SubscriptionNoPool[i] : i \in 1..MaxOrders}
TxIds == {"tx1", "tx2"}
AccountPool == <<"acct1", "acct2", "acct3", "acct4">>

MembershipLevel == {"free", "lite", "pro", "max"}
OrderStatus == {"pending", "paid", "failed", "refunded"}
SubscriptionStatus == {"pending", "active", "expired", "cancelled"}
PointsLogType == {"recharge", "creation_cost", "bonus", "refund", "admin_adjust"}

UserRole == {"admin", "user"}
UserStatus == {"active", "banned", "deleted"}

NewUser ==
    [nickname |-> "nick0",
     avatar_url |-> None,
     role |-> "user",
     status |-> "active",
     points_balance |-> 0,
     free_creation_remaining |-> DefaultFreeCreation,
     membership_level |-> "free",
     membership_expire_at |-> NoTime]

(* core/security.py: the password is stored and compared as it is *)
verify_password(plain_password, stored_password) ==
    plain_password = stored_password

get_password_hash(password) == password

UserAuth(user_id, credential, wechat_unionid) ==
    [user_id |-> user_id, credential |-> credential,
     wechat_unionid |-> wechat_unionid]

NoRow == [status |-> None]
NoTx == [owner |-> None]
NoCall == [op |-> None]

---------------------------------------------------------------------------
(* payment_service helpers *)

_add_months(dt, months) == dt + DaysPerMonth * months

(* mutation: the ratio of the module docstring, 1 yuan = 7 points *)
_calc_points_seven(amount_fen) == (amount_fen \div 100) * 7

_calc_points(amount_fen) == (amount_fen \div 100) * POINTS_PER_YUAN

NewRechargeOrder(user_id, amount_fen, points_amount) ==
    [user_id |-> user_id,
     amount_fen |-> amount_fen,
     points_amount |-> points_amount,
     status |-> "pending",
     wechat_transaction_id |-> None,
     paid_at |-> NoTime]

NewSubscriptionOrder(user_id, level, months, amount_fen) ==
    [user_id |-> user_id,
     level |-> level,
     months |-> months,
     amount_fen |-> amount_fen,
     status |-> "pending",
     wechat_transaction_id |-> None,
     start_at |-> NoTime,
     expire_at |-> NoTime,
     paid_at |-> NoTime]

---------------------------------------------------------------------------
(* Exceptions: the class and the message that tells two raises apart *)

Ok == [exc |-> None]
Raise(exc, msg) == [exc |-> exc, msg |-> msg]

UserNotFound == Raise("ValueError", "user not found")
OrderNotFound == Raise("ValueError", "order not found")
AlreadyProcessed == Raise("ValueError", "order already processed")
InvalidAmount == Raise("ValueError", "amount must be greater than 0")
InvalidLevel == Raise("ValueError", "cannot subscribe to free")
InvalidMonths == Raise("ValueError", "months must be greater than 0")
InsufficientCreation == Raise("ValueError", "insufficient points for creation")
InsufficientPageEdit == Raise("ValueError", "insufficient points for page edit")
NegativeBalance == Raise("ValueError", "balance would be negative")
InsufficientPointsCreation ==
    Raise("InsufficientPointsError", "insufficient points for creation")
InsufficientPointsPageEdit ==
    Raise("InsufficientPointsError", "insufficient points for page edit")
TypeError ==
    Raise("TypeError", "can't compare offset-naive and offset-aware datetimes")
IntegrityError == Raise("IntegrityError", "duplicate order_no")
RequestValidationError == Raise("RequestValidationError", "422")
PostRejected == Raise("ValueError", "wechat pay request failed")
BadGateway(e) == [exc |-> "HTTPException", status_code |-> 502, msg |-> e.msg]
TimeoutException == Raise("TimeoutException", "wechat pay request timed out")
ConnectError == Raise("ConnectError", "all connection attempts failed")
AttributeError == Raise("AttributeError", "'list' object has no attribute 'get'")
NotSubscriptable ==
    Raise("TypeError", "list indices must be integers or slices, not str")
AccountExists == Raise("ValueError", "account already exists")
PhoneBound == Raise("ValueError", "phone bound to another account")
ForeignKeyError ==
    Raise("IntegrityError", "foreign key user_auth.user_id fails")
DuplicateAuth == Raise("IntegrityError", "duplicate (auth_type, identifier)")
NoResultFound == Raise("NoResultFound", "no row was found when one was required")
DBError == Raise("OperationalError", "database error")
JSONDecodeError == Raise("JSONDecodeError", "body is not JSON")
KeyError(key) == Raise("KeyError", key)
InvalidTag == Raise("InvalidTag", "authentication tag mismatch")

---------------------------------------------------------------------------
(* wechat_pay: AES-256-GCM callback decryption.  A ciphertext is the       *)
(* sealed plaintext together with what it was sealed under; the tag        *)
(* verifies only for the same key, nonce and associated data and an        *)
(* unmodified ciphertext.                                                  *)

WECHAT_PAY_API_KEY_V3 == "apiv3key"

Seal(key, nonce, ad, plaintext) ==
    [key |-> key, nonce |-> nonce, ad |-> ad, plaintext |-> plaintext,
     intact |-> TRUE]

Tamper(ciphertext) == [ciphertext EXCEPT !.intact = FALSE]

AESGCM_decrypt(key, nonce, ciphertext, ad) ==
    IF /\ ciphertext.key = key
       /\ ciphertext.nonce = nonce
       /\ ciphertext.ad = ad
       /\ ciphertext.intact
    THEN [error |-> Ok, data |-> ciphertext.plaintext]
    ELSE [error |-> InvalidTag, data |-> <<>>]

(* mutation: the plaintext is taken without verifying the tag *)
decrypt_notify_resource_unverified(resource) ==
    IF "nonce" \notin DOMAIN resource
    THEN [error |-> KeyError("nonce"), data |-> <<>>]
    ELSE IF "ciphertext" \notin DOMAIN resource
    THEN [error |-> KeyError("ciphertext"), data |-> <<>>]
    ELSE [error |-> Ok, data |-> resource.ciphertext.plaintext]

decrypt_notify_resource(resource) ==
    IF "nonce" \notin DOMAIN resource
    THEN [error |-> KeyError("nonce"), data |-> <<>>]
    ELSE IF "ciphertext" \notin DOMAIN resource
    THEN [error |-> KeyError("ciphertext"), data |-> <<>>]
    ELSE LET ad == IF /\ "associated_data" \in DOMAIN resource
                      /\ resource.associated_data # None
                   THEN resource.associated_data
                   ELSE ""
         IN  AESGCM_decrypt(WECHAT_PAY_API_KEY_V3, resource.nonce,
                            resource.ciphertext, ad)

---------------------------------------------------------------------------
(* payment_api: the part of notify_recharge / notify_subscription that     *)
(* runs before the service call, and the answer to the provider.           *)

NoData == [order_no |-> None, tx_id |-> None, trade_state |-> None]

notify_parse(body) ==
    IF ~body.json
    THEN [error |-> JSONDecodeError, data |-> NoData]
    ELSE LET resource == IF "resource" \in DOMAIN body.fields
                         THEN body.fields.resource
                         ELSE <<>>
             dec == decrypt_notify_resource(resource)
         IN  IF dec.error # Ok
             THEN [error |-> dec.error, data |-> NoData]
             ELSE IF "out_trade_no" \notin DOMAIN dec.data
             THEN [error |-> KeyError("out_trade_no"), data |-> NoData]
             ELSE IF "transaction_id" \notin DOMAIN dec.data
             THEN [error |-> KeyError("transaction_id"), data |-> NoData]
             ELSE [error |-> Ok,
                   data |-> [order_no |-> dec.data.out_trade_no,
                             tx_id |-> dec.data.transaction_id,
                             trade_state |->
                                 IF "trade_state" \in DOMAIN dec.data
                                 THEN dec.data.trade_state
                                 ELSE ""]]

(* mutation: the endpoint catches ValueError only *)
notify_response_value_error_only(error) ==
    IF error = Ok THEN [code |-> "SUCCESS", message |-> "OK"]
    ELSE IF error.exc = "ValueError"
    THEN [code |-> "FAIL", message |-> error.msg]
    ELSE [code |-> "500", message |-> "Internal Server Error"]

(* mutation: the exception is logged and the request acknowledged *)
notify_response_always_success(error) ==
    [code |-> "SUCCESS", message |-> "OK"]

notify_response(error) ==
    IF error # Ok
    THEN [code |-> "FAIL", message |-> error.msg]
    ELSE [code |-> "SUCCESS", message |-> "OK"]

---------------------------------------------------------------------------
(* points_service: the ledger step shared by every balance mutation *)

_apply_points_delta(user, user_id, delta, log_type, related_order_id) ==
    LET balance == user.points_balance + delta
    IN  [user |-> [user EXCEPT !.points_balance = balance],
         log |-> [user_id |-> user_id,
                  delta |-> delta,
                  type |-> log_type,
                  balance_after |-> balance,
                  related_order_id |-> related_order_id]]

(* payment_service: the checks of a settlement on the order it selected *)

(* mutation: the status of the order is not checked *)
settlement_gate_unchecked(order) ==
    IF order = NoRow THEN OrderNotFound ELSE Ok

settlement_gate(order) ==
    IF order = NoRow THEN OrderNotFound
    ELSE IF order.status # "pending" THEN AlreadyProcessed
    ELSE Ok

create_recharge_check(amount_fen) ==
    IF amount_fen <= 0 THEN InvalidAmount ELSE Ok

(* mutation: months is not checked *)
create_subscription_check_no_months(level, months, amount_fen) ==
    IF level = "free" THEN InvalidLevel
    ELSE IF amount_fen <= 0 THEN InvalidAmount
    ELSE Ok

create_subscription_check(level, months, amount_fen) ==
    IF level = "free" THEN InvalidLevel
    ELSE IF months <= 0 THEN InvalidMonths
    ELSE IF amount_fen <= 0 THEN InvalidAmount
    ELSE Ok

(* datetime: a value read from a DateTime column (declared without        *)
(* timezone=True) is offset-naive, datetime.now(timezone.utc) is          *)
(* offset-aware, and an ordering comparison of the two kinds raises       *)

ColumnTzAware == FALSE
NowTzAware == TRUE

datetime_gt(a, a_aware, b, b_aware) ==
    IF a_aware # b_aware
    THEN [error |-> TypeError, value |-> FALSE]
    ELSE [error |-> Ok, value |-> a > b]

(* payment_service.handle_subscription_paid: the new expiry.  `and`       *)
(* evaluates the comparison only for the same level and a non-null expiry *)

is_renewal(user, order, at) ==
    IF /\ user.membership_level = order.level
       /\ user.membership_expire_at # NoTime
    THEN datetime_gt(user.membership_expire_at, ColumnTzAware, at, NowTzAware)
    ELSE [error |-> Ok, value |-> FALSE]

new_expire(user, order, at) ==
    LET renewal == is_renewal(user, order, at)
    IN  IF renewal.error # Ok
        THEN [error |-> renewal.error, value |-> NoTime]
        ELSE [error |-> Ok,
              value |-> _add_months(IF renewal.value
                                    THEN user.membership_expire_at
                                    ELSE at,
                                    order.months)]

---------------------------------------------------------------------------
(* State of a webhook request *)

(* order and user are the objects of the handler's session as it has     *)
(* changed them, loaded is the user as the session read it                 *)
IdleHook ==
    [pc |-> "idle", endpoint |-> None, order_no |-> None, tx_id |-> None,
     trade_state |-> None, order |-> NoRow, user |-> NoRow,
     loaded |-> NoRow, error |-> Ok, response |-> [code |-> None]]

Select(table, key) == IF key \in DOMAIN table THEN table[key] ELSE NoRow

(* the columns whose assigned value is not == the loaded one: the SET     *)
(* clause of the UPDATE the unit of work sends at commit.  aware is the   *)
(* set of columns assigned an offset-aware datetime: it is never == the   *)
(* offset-naive datetime a DateTime column was loaded as, whatever the    *)
(* instant; None is no datetime                                            *)
Dirty(loaded, assigned, aware) ==
    {col \in DOMAIN assigned :
        \/ assigned[col] # loaded[col]
        \/ col \in aware /\ ColumnTzAware = FALSE}

(* session.commit() on a row: the dirty columns take the assigned value,  *)
(* every other column keeps what is committed in the row                   *)
Flush(row, loaded, assigned, aware) ==
    [col \in DOMAIN row |->
        IF col \in Dirty(loaded, assigned, aware) THEN assigned[col]
        ELSE row[col]]

(* the handler of request d ends: the exception, if any, reaches the      *)
(* except clause of the endpoint, which answers                            *)
Answer(h, error) ==
    [h EXCEPT !.pc = "done", !.order = NoRow, !.user = NoRow,
              !.loaded = NoRow,
              !.error = error, !.response = notify_response(error)]

LockFree(user_id) == row_lock[user_id] = NoTx

(* select(User)...with_for_update() by transaction tx *)
with_for_update(user_id, tx) ==
    IF dialect = "mysql"
    THEN /\ LockFree(user_id)
         /\ row_lock' = [row_lock EXCEPT ![user_id] = tx]
    ELSE UNCHANGED row_lock

(* the transaction tx ends, by commit or by rollback *)
release(tx) ==
    row_lock' = [u \in DOMAIN row_lock |->
                    IF row_lock[u] = tx THEN NoTx ELSE row_lock[u]]

(* a service call or an endpoint in flight: what it was called with, the  *)
(* user and the credential it loaded, the order it created                 *)
NoArgs == [none |-> TRUE]

IdleCall ==
    [pc |-> "idle", op |-> None, user_id |-> 0, delta |-> 0,
     user |-> NoRow, args |-> NoArgs, order_no |-> None, auth |-> NoRow]

Init ==
    /\ users = [u \in Users |-> NewUser]
    /\ user_points_log = <<>>
    /\ recharge_orders = <<>>
    /\ subscription_orders = <<>>
    /\ row_lock = [u \in UserIds |-> NoTx]
    /\ dialect \in Dialects
    /\ auto_increment = NumUsers + 1
    /\ user_auth = [k \in {<<"password", AccountPool[u]>> : u \in Users} |->
                       UserAuth(CHOOSE u \in Users : AccountPool[u] = k[2],
                                get_password_hash("secret1"), None)]
    /\ hooks = [d \in Deliveries |-> IdleHook]
    /\ calls = [c \in Callers |-> IdleCall]
    /\ last_call = NoCall
    /\ now = 0

---------------------------------------------------------------------------
(* Webhook bodies: what the provider sends, and what anyone else can post  *)
(* to the unauthenticated endpoints.                                       *)

TradeStates == {"SUCCESS", "NOTPAY"}

Plaintext(order_no, tx_id, trade_state) ==
    [out_trade_no |-> order_no, transaction_id |-> tx_id,
     trade_state |-> trade_state]

Resource(ciphertext, nonce, ad) ==
    [algorithm |-> "AEAD_AES_256_GCM", ciphertext |-> ciphertext,
     associated_data |-> ad, nonce |-> nonce]

Body(resource) == [json |-> TRUE, fields |-> [resource |-> resource]]

Sealed(plaintext) ==
    Seal(WECHAT_PAY_API_KEY_V3, "nonce1", "transaction", plaintext)

ProviderBody(plaintext) ==
    Body(Resource(Sealed(plaintext), "nonce1", "transaction"))

ProviderBodies(order_nos) ==
    {ProviderBody(Plaintext(o, t, s)) :
        o \in order_nos, t \in TxIds, s \in TradeStates}

IncompleteBodies(order_nos) ==
    {ProviderBody([out_trade_no |-> o, transaction_id |-> "tx1"]) :
        o \in order_nos}
    \cup {ProviderBody([transaction_id |-> "tx1", trade_state |-> "SUCCESS"])}
    \cup {ProviderBody([out_trade_no |-> o, trade_state |-> "SUCCESS"]) :
            o \in order_nos}

MalformedBodies(order_nos) ==
    {[json |-> FALSE, fields |-> <<>>],
     [json |-> TRUE, fields |-> <<>>]}
    \cup {Body([ciphertext |-> Sealed(Plaintext(o, "tx1", "SUCCESS"))]) :
            o \in order_nos}

(* bodies whose resource does not authenticate: a modified ciphertext, a   *)
(* nonce or associated data other than the sealed ones, a foreign key      *)
ForgedBodies(order_nos) ==
    LET pts == {Plaintext(o, "tx1", "SUCCESS") : o \in order_nos}
    IN  {Body(Resource(Tamper(Sealed(pt)), "nonce1", "transaction")) :
            pt \in pts}
        \cup {Body(Resource(Sealed(pt), "nonce2", "transaction")) : pt \in pts}
        \cup {Body(Resource(Sealed(pt), "nonce1", None)) : pt \in pts}
        \cup {Body(Resource(Seal("otherkey", "nonce1", "transaction", pt),
                            "nonce1", "transaction")) : pt \in pts}

EndpointNos(endpoint) ==
    IF endpoint = "recharge" THEN RechargeNos ELSE SubscriptionNos

AllBodies(endpoint) ==
    ProviderBodies(EndpointNos(endpoint))
    \cup IncompleteBodies(EndpointNos(endpoint))
    \cup MalformedBodies(EndpointNos(endpoint))
    \cup ForgedBodies(EndpointNos(endpoint))

---------------------------------------------------------------------------
(* payment_api.notify_recharge / notify_subscription: a request arrives,   *)
(* its body is parsed and decrypted, and only trade_state SUCCESS goes on  *)
(* to the settlement.                                                      *)

(* mutation: the trade state is not looked at *)
notify_any_trade_state(d, endpoint, body) ==
    /\ hooks[d].pc = "idle"
    /\ \A e \in Deliveries : e < d => hooks[e].pc # "idle"
    /\ LET p == notify_parse(body)
           h == [hooks[d] EXCEPT !.endpoint = endpoint,
                                 !.order_no = p.data.order_no,
                                 !.tx_id = p.data.tx_id,
                                 !.trade_state = p.data.trade_state]
       IN  hooks' = [hooks EXCEPT ![d] =
               IF p.error # Ok THEN Answer(h, p.error)
               ELSE [h EXCEPT !.pc = IF endpoint = "recharge"
                                     THEN "recharge_select"
                                     ELSE "subscription_select"]]
    /\ UNCHANGED <<db, row_lock, dialect, auto_increment, user_auth, calls, last_call, now>>

notify(d, endpoint, body) ==
    /\ hooks[d].pc = "idle"
    /\ \A e \in Deliveries : e < d => hooks[e].pc # "idle"
    /\ LET p == notify_parse(body)
           h == [hooks[d] EXCEPT !.endpoint = endpoint,
                                 !.order_no = p.data.order_no,
                                 !.tx_id = p.data.tx_id,
                                 !.trade_state = p.data.trade_state]
       IN  hooks' = [hooks EXCEPT ![d] =
               IF p.error # Ok THEN Answer(h, p.error)
               ELSE IF p.data.trade_state # "SUCCESS" THEN Answer(h, Ok)
               ELSE [h EXCEPT !.pc = IF endpoint = "recharge"
                                     THEN "recharge_select"
                                     ELSE "subscription_select"]]
    /\ UNCHANGED <<db, row_lock, dialect, auto_increment, user_auth, calls, last_call, now>>

---------------------------------------------------------------------------
(* payment_service.handle_recharge_paid *)

(* select the order, check it, and change the loaded object *)
handle_recharge_paid_select(d) ==
    LET h == hooks[d]
        order == Select(recharge_orders, h.order_no)
        gate == settlement_gate(order)
    IN  /\ h.pc = "recharge_select"
        /\ hooks' = [hooks EXCEPT ![d] =
               IF gate # Ok THEN Answer(h, gate)
               ELSE [h EXCEPT !.pc = "recharge_commit",
                              !.order = [order EXCEPT
                                  !.status = "paid",
                                  !.wechat_transaction_id = h.tx_id,
                                  !.paid_at = now]]]
        /\ UNCHANGED <<db, row_lock, dialect, auto_increment, user_auth, calls, last_call, now>>

(* mutation: the credit is started before the status is committed *)
handle_recharge_paid_commit_after_credit(d) ==
    LET h == hooks[d]
    IN  /\ h.pc = "recharge_commit"
        /\ hooks' = [hooks EXCEPT ![d].pc = "credit_select"]
        /\ UNCHANGED <<db, row_lock, dialect, auto_increment, user_auth, calls, last_call, now>>

(* session.commit(): the changed attributes are written to the row *)
handle_recharge_paid_commit(d) ==
    LET h == hooks[d]
    IN  /\ h.pc = "recharge_commit"
        /\ recharge_orders' = [recharge_orders EXCEPT ![h.order_no] =
               [@ EXCEPT !.status = h.order.status,
                         !.wechat_transaction_id = h.order.wechat_transaction_id,
                         !.paid_at = h.order.paid_at]]
        /\ hooks' = [hooks EXCEPT ![d].pc = "credit_select"]
        /\ UNCHANGED <<users, user_points_log, subscription_orders,
                       row_lock, dialect, auto_increment, user_auth, calls, last_call, now>>

(* points_service.credit_recharge_points: SELECT ... FOR UPDATE *)
credit_recharge_points_select(d) ==
    LET h == hooks[d]
        user_id == h.order.user_id
        user == Select(users, user_id)
    IN  /\ h.pc = "credit_select"
        /\ IF user = NoRow
           THEN /\ hooks' = [hooks EXCEPT ![d] = Answer(h, UserNotFound)]
                /\ UNCHANGED row_lock
           ELSE /\ with_for_update(user_id, [owner |-> "hook", id |-> d])
                /\ hooks' = [hooks EXCEPT ![d].pc = "credit_commit",
                                          ![d].user = user]
        /\ UNCHANGED <<db, dialect, auto_increment, user_auth, calls, last_call, now>>

(* points_service.credit_recharge_points: ledger step and commit *)
credit_recharge_points_commit(d) ==
    LET h == hooks[d]
        user_id == h.order.user_id
        r == _apply_points_delta(h.user, user_id, h.order.points_amount,
                                 "recharge", h.order_no)
    IN  /\ h.pc = "credit_commit"
        /\ users' = [users EXCEPT ![user_id] = Flush(@, h.user,
                         [points_balance |-> r.user.points_balance], {})]
        /\ user_points_log' = Append(user_points_log, r.log)
        /\ release([owner |-> "hook", id |-> d])
        /\ hooks' = [hooks EXCEPT ![d] = Answer(h, Ok)]
        /\ UNCHANGED <<recharge_orders, subscription_orders, dialect, auto_increment, user_auth, calls,
                       last_call, now>>

---------------------------------------------------------------------------
(* payment_service.handle_subscription_paid *)

(* select the order and check it *)
handle_subscription_paid_select(d) ==
    LET h == hooks[d]
        order == Select(subscription_orders, h.order_no)
        gate == settlement_gate(order)
    IN  /\ h.pc = "subscription_select"
        /\ hooks' = [hooks EXCEPT ![d] =
               IF gate # Ok THEN Answer(h, gate)
               ELSE [h EXCEPT !.pc = "subscription_user", !.order = order]]
        /\ UNCHANGED <<db, row_lock, dialect, auto_increment, user_auth, calls, last_call, now>>

(* select the user (a plain SELECT), compute the expiry and change the    *)
(* loaded order and user                                                   *)
handle_subscription_paid_user(d) ==
    LET h == hooks[d]
        user == Select(users, h.order.user_id)
        r == new_expire(user, h.order, now)
        expire == r.value
    IN  /\ h.pc = "subscription_user"
        /\ hooks' = [hooks EXCEPT ![d] =
               IF user = NoRow THEN Answer(h, UserNotFound)
               ELSE IF r.error # Ok THEN Answer(h, r.error)
               ELSE [h EXCEPT
                   !.pc = "subscription_commit",
                   !.order = [h.order EXCEPT
                       !.status = "active",
                       !.wechat_transaction_id = h.tx_id,
                       !.start_at = now,
                       !.expire_at = expire,
                       !.paid_at = now],
                   !.user = [user EXCEPT
                       !.membership_level = h.order.level,
                       !.membership_expire_at = expire],
                   !.loaded = user]]
        /\ UNCHANGED <<db, row_lock, dialect, auto_increment, user_auth, calls, last_call, now>>

(* mutation: the order is committed on its own, the membership is left    *)
(* to a second transaction                                                 *)
handle_subscription_paid_commit_order_only(d) ==
    LET h == hooks[d]
    IN  /\ h.pc = "subscription_commit"
        /\ subscription_orders' = [subscription_orders EXCEPT ![h.order_no] =
               [@ EXCEPT !.status = h.order.status,
                         !.wechat_transaction_id = h.order.wechat_transaction_id,
                         !.start_at = h.order.start_at,
                         !.expire_at = h.order.expire_at,
                         !.paid_at = h.order.paid_at]]
        /\ hooks' = [hooks EXCEPT ![d] = Answer(h, Ok)]
        /\ UNCHANGED <<users, user_points_log, recharge_orders, row_lock,
                       dialect, auto_increment, user_auth, calls, last_call, now>>

(* session.commit(): the order's and the user's changed attributes are    *)
(* written together; the UPDATE of the user row waits for its row lock.   *)
(* The order was loaded pending, so each of its five assigned columns is  *)
(* dirty; of the user's two, the level may equal the loaded value, while  *)
(* the new expiry, computed from the offset-aware now, never is == the    *)
(* loaded one.                                                             *)
handle_subscription_paid_commit(d) ==
    LET h == hooks[d]
        user_id == h.order.user_id
    IN  /\ h.pc = "subscription_commit"
        /\ LockFree(user_id)
        /\ subscription_orders' = [subscription_orders EXCEPT ![h.order_no] =
               [@ EXCEPT !.status = h.order.status,
                         !.wechat_transaction_id = h.order.wechat_transaction_id,
                         !.start_at = h.order.start_at,
                         !.expire_at = h.order.expire_at,
                         !.paid_at = h.order.paid_at]]
        /\ users' = [users EXCEPT ![user_id] = Flush(@, h.loaded,
               [membership_level |-> h.user.membership_level,
                membership_expire_at |-> h.user.membership_expire_at],
               IF NowTzAware THEN {"membership_expire_at"} ELSE {})]
        /\ hooks' = [hooks EXCEPT ![d] = Answer(h, Ok)]
        /\ UNCHANGED <<user_points_log, recharge_orders, row_lock,
                       dialect, auto_increment, user_auth, calls, last_call, now>>

---------------------------------------------------------------------------
(* A database round trip of a settlement fails (connection lost, lock     *)
(* wait timeout, ...): the open transaction is rolled back, the exception *)
(* reaches the endpoint's except clause.                                  *)

DbSteps ==
    {"recharge_select", "recharge_commit", "credit_select", "credit_commit",
     "subscription_select", "subscription_user", "subscription_commit"}

notify_db_error(d) ==
    LET h == hooks[d]
    IN  /\ h.pc \in DbSteps
        /\ hooks' = [hooks EXCEPT ![d] = Answer(h, DBError)]
        /\ release([owner |-> "hook", id |-> d])
        /\ UNCHANGED <<db, dialect, auto_increment, user_auth, calls, last_call, now>>

---------------------------------------------------------------------------
(* payment_service.create_recharge_order / create_subscription_order.     *)
(* order_no is the number _gen_order_no produced.                          *)

Call(op, args, result) == [op |-> op, args |-> args, result |-> result]

(* A service call or an endpoint in flight ends: its slot is free again,  *)
(* what it returned or raised is recorded                                  *)
Return(c, result) ==
    /\ calls' = [calls EXCEPT ![c] = IdleCall]
    /\ last_call' = Call(calls[c].op, calls[c].args, result)

(* a call starts in the first free slot *)
Free(c) ==
    /\ calls[c].pc = "idle"
    /\ \A e \in Callers : e < c => calls[e].pc # "idle"

Returned(value) == [exc |-> None, value |-> value]
ReturnsNone == Returned(NoRow)

(* the arguments that are not None, as the attributes assigned *)
NotNone(vals) == [col \in {k \in DOMAIN vals : vals[k] # None} |-> vals[col]]

(* the call is in flight from its commit to the refresh that reads the    *)
(* order back; a check that fails raises before the session is opened, a  *)
(* number that is taken fails the commit                                   *)
create_recharge_order(c, user_id, amount_fen, order_no) ==
    LET check == create_recharge_check(amount_fen)
        args == [user_id |-> user_id, amount_fen |-> amount_fen]
        order == NewRechargeOrder(user_id, amount_fen, _calc_points(amount_fen))
    IN  /\ Free(c)
        /\ IF check # Ok
           THEN /\ last_call' = Call("create_recharge_order", args, check)
                /\ UNCHANGED <<recharge_orders, calls>>
           ELSE IF order_no \in DOMAIN recharge_orders
           THEN /\ last_call' = Call("create_recharge_order", args,
                                     IntegrityError)
                /\ UNCHANGED <<recharge_orders, calls>>
           ELSE /\ recharge_orders' = recharge_orders @@ (order_no :> order)
                /\ calls' = [calls EXCEPT ![c] = [IdleCall EXCEPT
                       !.pc = "committed", !.op = "create_recharge_order",
                       !.user_id = user_id, !.args = args,
                       !.order_no = order_no]]
                /\ UNCHANGED last_call
        /\ UNCHANGED <<users, user_points_log, subscription_orders,
                       row_lock, dialect, auto_increment, user_auth, hooks, now>>

create_subscription_order(c, user_id, level, months, amount_fen, order_no) ==
    LET check == create_subscription_check(level, months, amount_fen)
        args == [user_id |-> user_id, level |-> level, months |-> months,
                 amount_fen |-> amount_fen]
        order == NewSubscriptionOrder(user_id, level, months, amount_fen)
    IN  /\ Free(c)
        /\ IF check # Ok
           THEN /\ last_call' = Call("create_subscription_order", args, check)
                /\ UNCHANGED <<subscription_orders, calls>>
           ELSE IF order_no \in DOMAIN subscription_orders
           THEN /\ last_call' = Call("create_subscription_order", args,
                                     IntegrityError)
                /\ UNCHANGED <<subscription_orders, calls>>
           ELSE /\ subscription_orders' =
                       subscription_orders @@ (order_no :> order)
                /\ calls' = [calls EXCEPT ![c] = [IdleCall EXCEPT
                       !.pc = "committed", !.op = "create_subscription_order",
                       !.user_id = user_id, !.args = args,
                       !.order_no = order_no]]
                /\ UNCHANGED last_call
        /\ UNCHANGED <<users, user_points_log, recharge_orders,
                       row_lock, dialect, auto_increment, user_auth, hooks, now>>

---------------------------------------------------------------------------
(* The provider's answer to POST /v3/pay/transactions/{h5,native}: the    *)
(* httpx client raises (no answer within its timeout of 15 s, no          *)
(* connection) or returns a response with a status code and a body.  A    *)
(* body is text that is no JSON, a JSON array, or a JSON object with some *)
(* keys whose values are strings.                                          *)

ResponseBody(json, object, keys) ==
    [json |-> json, object |-> object, keys |-> keys]

NotJson == ResponseBody(FALSE, FALSE, {})
JsonArray == ResponseBody(TRUE, FALSE, {})
JsonObject(keys) == ResponseBody(TRUE, TRUE, keys)

Response(status_code, body) ==
    [error |-> Ok, status_code |-> status_code, body |-> body]

NoResponse(error) ==
    [error |-> error, status_code |-> 0, body |-> NotJson]

StatusCodes == {200, 201, 202, 204, 400, 500}

ResponseBodies ==
    {NotJson, JsonArray, JsonObject({}), JsonObject({"code_url"}),
     JsonObject({"h5_url"}), JsonObject({"code", "message"})}

ProviderAnswers ==
    {NoResponse(e) : e \in {TimeoutException, ConnectError}}
    \cup {Response(s, b) : s \in StatusCodes, b \in ResponseBodies}

AcceptedStatus == {200, 201, 204}

(* wechat_pay._post: the body is parsed before the status is looked at *)
_post(answer) ==
    IF answer.error # Ok
    THEN [error |-> answer.error, data |-> NotJson]
    ELSE IF ~answer.body.json
    THEN [error |-> JSONDecodeError, data |-> NotJson]
    ELSE IF answer.status_code \notin AcceptedStatus
    THEN [error |-> IF answer.body.object THEN PostRejected
                    ELSE AttributeError,
          data |-> NotJson]
    ELSE [error |-> Ok, data |-> answer.body]

(* data[key] of the parsed body *)
Subscript(data, key) ==
    IF ~data.object THEN NotSubscriptable
    ELSE IF key \notin data.keys THEN KeyError(key)
    ELSE Ok

create_h5_order(answer) ==
    LET r == _post(answer)
    IN  IF r.error # Ok THEN r.error ELSE Subscript(r.data, "h5_url")

create_native_order(answer) ==
    LET r == _post(answer)
    IN  IF r.error # Ok THEN r.error ELSE Subscript(r.data, "code_url")

(* except ValueError as e: raise HTTPException(502); json.JSONDecodeError *)
(* is a ValueError, every other exception leaves the endpoint as raised   *)
IsValueError(e) == e.exc \in {"ValueError", "JSONDecodeError"}

PayOrderOut(pay_channel, answer) ==
    LET e == IF pay_channel = "h5" THEN create_h5_order(answer)
             ELSE create_native_order(answer)
    IN  IF e = Ok THEN Ok
        ELSE IF IsValueError(e) THEN BadGateway(e)
        ELSE e

---------------------------------------------------------------------------
(* payment_api.create_recharge / create_subscription: the request model   *)
(* is validated, the order is created, committed and read back by         *)
(* payment_service (refresh), and then the provider is called; the        *)
(* endpoint waits for the answer                                           *)
(* while other requests, the webhook of the new order included, are       *)
(* served.  order_no is the number _gen_order_no produced.                 *)

PayChannels == {"h5", "native"}

CreateRechargeRequest(amount_fen, pay_channel) ==
    IF amount_fen > 0 /\ pay_channel \in PayChannels
    THEN Ok ELSE RequestValidationError

CreateSubscriptionRequest(level, months, amount_fen, pay_channel) ==
    IF /\ level \in {"lite", "pro", "max"}
       /\ months >= 1 /\ months <= 12
       /\ amount_fen > 0
       /\ pay_channel \in PayChannels
    THEN Ok ELSE RequestValidationError

Request(op, args, order_no, result) ==
    [op |-> op, args |-> args, order_no |-> order_no, result |-> result]

(* validation, create_recharge_order and its commit *)
create_recharge(c, user_id, amount_fen, pay_channel, order_no) ==
    LET args == [user_id |-> user_id, amount_fen |-> amount_fen,
                 pay_channel |-> pay_channel]
        valid == CreateRechargeRequest(amount_fen, pay_channel)
        order == NewRechargeOrder(user_id, amount_fen, _calc_points(amount_fen))
    IN  /\ Free(c)
        /\ IF valid # Ok
           THEN /\ last_call' = Request("create_recharge", args, None, valid)
                /\ UNCHANGED <<recharge_orders, calls>>
           ELSE IF order_no \in DOMAIN recharge_orders
           THEN /\ last_call' = Request("create_recharge", args, None,
                                        IntegrityError)
                /\ UNCHANGED <<recharge_orders, calls>>
           ELSE /\ recharge_orders' = recharge_orders @@ (order_no :> order)
                /\ calls' = [calls EXCEPT ![c] = [IdleCall EXCEPT
                       !.pc = "committed", !.op = "create_recharge",
                       !.user_id = user_id, !.args = args,
                       !.order_no = order_no]]
                /\ UNCHANGED last_call
        /\ UNCHANGED <<users, user_points_log, subscription_orders,
                       row_lock, dialect, auto_increment, user_auth, hooks, now>>

(* validation, create_subscription_order and its commit *)
create_subscription(c, user_id, level, months, amount_fen, pay_channel, order_no) ==
    LET args == [user_id |-> user_id, level |-> level, months |-> months,
                 amount_fen |-> amount_fen, pay_channel |-> pay_channel]
        valid == CreateSubscriptionRequest(level, months, amount_fen,
                                           pay_channel)
        order == NewSubscriptionOrder(user_id, level, months, amount_fen)
    IN  /\ Free(c)
        /\ IF valid # Ok
           THEN /\ last_call' = Request("create_subscription", args, None,
                                        valid)
                /\ UNCHANGED <<subscription_orders, calls>>
           ELSE IF order_no \in DOMAIN subscription_orders
           THEN /\ last_call' = Request("create_subscription", args, None,
                                        IntegrityError)
                /\ UNCHANGED <<subscription_orders, calls>>
           ELSE /\ subscription_orders' =
                       subscription_orders @@ (order_no :> order)
                /\ calls' = [calls EXCEPT ![c] = [IdleCall EXCEPT
                       !.pc = "committed", !.op = "create_subscription",
                       !.user_id = user_id, !.args = args,
                       !.order_no = order_no]]
                /\ UNCHANGED last_call
        /\ UNCHANGED <<users, user_points_log, recharge_orders,
                       row_lock, dialect, auto_increment, user_auth, hooks, now>>

OrderRequests == {"create_recharge", "create_subscription"}

(* the provider call of request c ends with the answer: the endpoint      *)
(* returns the payment parameters or raises                                *)
create_order_answered(c, answer) ==
    LET tx == calls[c]
    IN  /\ tx.pc = "provider"
        /\ tx.op \in OrderRequests
        /\ calls' = [calls EXCEPT ![c] = IdleCall]
        /\ last_call' = Request(tx.op, tx.args, tx.order_no,
                                PayOrderOut(tx.args.pay_channel, answer))
        /\ UNCHANGED <<db, row_lock, dialect, auto_increment, user_auth, hooks, now>>

---------------------------------------------------------------------------
(* payment_service.admin_set_membership: the user is selected FOR UPDATE, *)
(* the two membership columns are assigned the arguments, commit.         *)
(* expire_at is None or a datetime, offset-naive or offset-aware as the   *)
(* caller parsed it (tzinfo tells which).                                  *)

admin_set_membership_select(c, user_id, level, expire_at, tzinfo) ==
    LET user == Select(users, user_id)
        args == [user_id |-> user_id, level |-> level,
                 expire_at |-> expire_at, tzinfo |-> tzinfo]
    IN  /\ Free(c)
        /\ IF user = NoRow
           THEN /\ last_call' = Call("admin_set_membership", args,
                                     UserNotFound)
                /\ UNCHANGED <<row_lock, calls>>
           ELSE /\ with_for_update(user_id, [owner |-> "api", id |-> c])
                /\ calls' = [calls EXCEPT ![c] = [IdleCall EXCEPT
                       !.pc = "selected", !.op = "admin_set_membership",
                       !.user_id = user_id, !.args = args, !.user = user]]
                /\ UNCHANGED last_call
        /\ UNCHANGED <<db, dialect, auto_increment, user_auth, hooks, now>>

admin_set_membership_commit(c) ==
    LET tx == calls[c]
    IN  /\ tx.pc = "selected"
        /\ tx.op = "admin_set_membership"
        /\ users' = [users EXCEPT ![tx.user_id] = Flush(@, tx.user,
               [membership_level |-> tx.args.level,
                membership_expire_at |-> tx.args.expire_at],
               IF tx.args.tzinfo THEN {"membership_expire_at"} ELSE {})]
        /\ release([owner |-> "api", id |-> c])
        /\ Return(c, Ok)
        /\ UNCHANGED <<user_points_log, recharge_orders, subscription_orders,
                       dialect, auto_increment, user_auth, hooks, now>>

---------------------------------------------------------------------------
(* user_service.update_profile / admin_update_user: a plain SELECT, the   *)
(* arguments that are not None are assigned, commit, refresh.  An unknown *)
(* user returns None.  The UPDATE of the commit waits for the row lock.   *)
(* admin_update_user also assigns updated_at, so its commit always sends  *)
(* an UPDATE.                                                              *)

update_profile_select(c, user_id, nickname, avatar_url) ==
    LET user == Select(users, user_id)
        args == [user_id |-> user_id, nickname |-> nickname,
                 avatar_url |-> avatar_url]
    IN  /\ Free(c)
        /\ IF user = NoRow
           THEN /\ last_call' = Call("update_profile", args, ReturnsNone)
                /\ UNCHANGED calls
           ELSE /\ calls' = [calls EXCEPT ![c] = [IdleCall EXCEPT
                       !.pc = "selected", !.op = "update_profile",
                       !.user_id = user_id, !.args = args, !.user = user]]
                /\ UNCHANGED last_call
        /\ UNCHANGED <<db, row_lock, dialect, auto_increment, user_auth, hooks, now>>

update_profile_commit(c) ==
    LET tx == calls[c]
        assigned == NotNone([nickname |-> tx.args.nickname,
                             avatar_url |-> tx.args.avatar_url])
    IN  /\ tx.pc = "selected"
        /\ tx.op = "update_profile"
        /\ (Dirty(tx.user, assigned, {}) # {}) => LockFree(tx.user_id)
        /\ users' = [users EXCEPT ![tx.user_id] =
                         Flush(@, tx.user, assigned, {})]
        /\ calls' = [calls EXCEPT ![c].pc = "committed"]
        /\ UNCHANGED <<user_points_log, recharge_orders, subscription_orders,
                       row_lock, dialect, auto_increment, user_auth, hooks, last_call, now>>

admin_update_user_select(c, user_id, status, role) ==
    LET user == Select(users, user_id)
        args == [user_id |-> user_id, status |-> status, role |-> role]
    IN  /\ Free(c)
        /\ IF user = NoRow
           THEN /\ last_call' = Call("admin_update_user", args, ReturnsNone)
                /\ UNCHANGED calls
           ELSE /\ calls' = [calls EXCEPT ![c] = [IdleCall EXCEPT
                       !.pc = "selected", !.op = "admin_update_user",
                       !.user_id = user_id, !.args = args, !.user = user]]
                /\ UNCHANGED last_call
        /\ UNCHANGED <<db, row_lock, dialect, auto_increment, user_auth, hooks, now>>

admin_update_user_commit(c) ==
    LET tx == calls[c]
        assigned == NotNone([status |-> tx.args.status,
                             role |-> tx.args.role])
    IN  /\ tx.pc = "selected"
        /\ tx.op = "admin_update_user"
        /\ LockFree(tx.user_id)
        /\ users' = [users EXCEPT ![tx.user_id] =
                         Flush(@, tx.user, assigned, {})]
        /\ calls' = [calls EXCEPT ![c].pc = "committed"]
        /\ UNCHANGED <<user_points_log, recharge_orders, subscription_orders,
                       row_lock, dialect, auto_increment, user_auth, hooks, last_call, now>>

(* session.refresh: the row is read again.  The service calls return it, *)
(* an order endpoint goes on to the provider call with it                  *)
refresh(c) ==
    LET tx == calls[c]
        user == Select(users, tx.user_id)
    IN  /\ tx.pc = "committed"
        /\ IF tx.op \in OrderRequests
           THEN /\ calls' = [calls EXCEPT ![c].pc = "provider"]
                /\ UNCHANGED last_call
           ELSE Return(c, Returned(
                    IF tx.op = "create_recharge_order"
                    THEN Select(recharge_orders, tx.order_no)
                    ELSE IF tx.op = "create_subscription_order"
                    THEN Select(subscription_orders, tx.order_no)
                    ELSE IF tx.op = "get_or_create_wechat_user"
                    THEN [user |-> user, is_new |-> tx.auth = NoRow]
                    ELSE user))
        /\ UNCHANGED <<db, row_lock, dialect, auto_increment, user_auth, hooks, now>>

---------------------------------------------------------------------------
(* user_service: registration and login.  The credentials are rows of     *)
(* user_auth, unique in (auth_type, identifier); is_active is TRUE in     *)
(* every row, no code sets it.                                             *)

register_with_password(c, nickname, account, password) ==
    LET args == [nickname |-> nickname, account |-> account,
                 password |-> password]
        existing == Select(user_auth, <<"password", account>>)
    IN  /\ Free(c)
        /\ IF existing # NoRow
           THEN /\ last_call' = Call("register_with_password", args,
                                     AccountExists)
                /\ UNCHANGED calls
           ELSE /\ calls' = [calls EXCEPT ![c] = [IdleCall EXCEPT
                       !.pc = "insert", !.op = "register_with_password",
                       !.args = args]]
                /\ UNCHANGED last_call
        /\ UNCHANGED <<db, row_lock, dialect, auto_increment, user_auth, hooks, now>>

login_by_password(c, account, password) ==
    LET args == [account |-> account, password |-> password]
        auth == Select(user_auth, <<"password", account>>)
    IN  /\ Free(c)
        /\ IF auth = NoRow
           THEN /\ last_call' = Call("login_by_password", args, ReturnsNone)
                /\ UNCHANGED calls
           ELSE IF ~verify_password(password,
                                    IF auth.credential = None THEN ""
                                    ELSE auth.credential)
           THEN /\ last_call' = Call("login_by_password", args, ReturnsNone)
                /\ UNCHANGED calls
           ELSE /\ calls' = [calls EXCEPT ![c] = [IdleCall EXCEPT
                       !.pc = "auth", !.op = "login_by_password",
                       !.user_id = auth.user_id, !.args = args,
                       !.auth = auth]]
                /\ UNCHANGED last_call
        /\ UNCHANGED <<db, row_lock, dialect, auto_increment, user_auth, hooks, now>>

get_or_create_wechat_user(c, openid, nickname, avatar_url, unionid) ==
    LET args == [openid |-> openid, nickname |-> nickname,
                 avatar_url |-> avatar_url, unionid |-> unionid]
        auth == Select(user_auth, <<"wechat_web", openid>>)
    IN  /\ Free(c)
        /\ calls' = [calls EXCEPT ![c] =
               IF auth # NoRow
               THEN [IdleCall EXCEPT
                       !.pc = "auth", !.op = "get_or_create_wechat_user",
                       !.user_id = auth.user_id, !.args = args,
                       !.auth = auth]
               ELSE [IdleCall EXCEPT
                       !.pc = "insert", !.op = "get_or_create_wechat_user",
                       !.args = args]]
        /\ UNCHANGED <<db, row_lock, dialect, auto_increment, user_auth, hooks, last_call,
                       now>>

(* the SELECT of the user a credential belongs to: login_by_password and  *)
(* get_user_by_phone return None for a missing or inactive user,          *)
(* get_or_create_wechat_user takes scalar_one() and looks at no status     *)
login_select_user(c) ==
    LET tx == calls[c]
        user == Select(users, tx.user_id)
    IN  /\ tx.pc = "auth"
        /\ IF user = NoRow
           THEN Return(c, IF tx.op = "get_or_create_wechat_user"
                          THEN NoResultFound ELSE ReturnsNone)
           ELSE IF tx.op # "get_or_create_wechat_user"
                   /\ user.status # "active"
           THEN Return(c, ReturnsNone)
           ELSE /\ calls' = [calls EXCEPT ![c].pc = "user",
                                          ![c].user = user]
                /\ UNCHANGED last_call
        /\ UNCHANGED <<db, row_lock, dialect, auto_increment, user_auth, hooks, now>>

(* the commit of a login: updated_at of the user is written, which waits  *)
(* for the row lock, and the unionid of the credential when the login     *)
(* brought one that is not the stored one                                  *)
login_commit(c) ==
    LET tx == calls[c]
        key == <<"wechat_web", tx.args.openid>>
    IN  /\ tx.pc = "user"
        /\ LockFree(tx.user_id)
        /\ IF /\ tx.op = "get_or_create_wechat_user"
              /\ tx.args.unionid # None
              /\ tx.auth.wechat_unionid # tx.args.unionid
           THEN user_auth' = [user_auth EXCEPT
                                 ![key].wechat_unionid = tx.args.unionid]
           ELSE UNCHANGED user_auth
        /\ calls' = [calls EXCEPT ![c].pc = "committed"]
        /\ UNCHANGED <<db, row_lock, dialect, auto_increment, hooks, last_call, now>>

(* the primary key the INSERT of a user is given: the AUTO_INCREMENT       *)
(* counter on MySQL, which a rollback does not take back; one more than   *)
(* the largest rowid of the table on SQLite (INTEGER PRIMARY KEY)         *)
NextId ==
    IF dialect = "mysql" THEN auto_increment
    ELSE CHOOSE id \in 1..(Cardinality(DOMAIN users) + 1) :
            /\ id \notin DOMAIN users
            /\ \A u \in DOMAIN users : u < id

(* _create_user: session.flush() sends the INSERT of the user inside the  *)
(* open transaction; the row has its id and no other session sees it.     *)
(* On SQLite the INSERT takes the write lock of the database file until   *)
(* the transaction ends, so a second registration waits with its INSERT.  *)
_create_user(c) ==
    LET tx == calls[c]
        password == tx.op = "register_with_password"
        user == [NewUser EXCEPT
                    !.nickname = tx.args.nickname,
                    !.avatar_url = IF password THEN None
                                   ELSE tx.args.avatar_url]
    IN  /\ tx.pc = "insert"
        /\ NextId \in UserIds
        /\ dialect = "sqlite" => \A e \in Callers : calls[e].pc # "flushed"
        /\ calls' = [calls EXCEPT ![c].pc = "flushed",
                                  ![c].user_id = NextId,
                                  ![c].user = user]
        /\ auto_increment' = IF dialect = "mysql" THEN auto_increment + 1
                             ELSE auto_increment
        /\ UNCHANGED <<db, row_lock, dialect, user_auth, hooks, last_call,
                       now>>

(* _add_auth and the commit of a registration: the INSERT of the          *)
(* credential is flushed and both rows are committed; a credential that   *)
(* another session has committed since the SELECT rolls the transaction   *)
(* back, the row of the user included                                      *)
_add_auth(c) ==
    LET tx == calls[c]
        password == tx.op = "register_with_password"
        key == IF password THEN <<"password", tx.args.account>>
               ELSE <<"wechat_web", tx.args.openid>>
        auth == IF password
                THEN UserAuth(tx.user_id,
                              get_password_hash(tx.args.password), None)
                ELSE UserAuth(tx.user_id, None, tx.args.unionid)
    IN  /\ tx.pc = "flushed"
        /\ IF key \in DOMAIN user_auth
           THEN /\ Return(c, DuplicateAuth)
                /\ UNCHANGED <<users, user_auth>>
           ELSE /\ users' = users @@ (tx.user_id :> tx.user)
                /\ user_auth' = user_auth @@ (key :> auth)
                /\ calls' = [calls EXCEPT ![c].pc = "committed"]
                /\ UNCHANGED last_call
        /\ UNCHANGED <<user_points_log, recharge_orders, subscription_orders,
                       row_lock, dialect, auto_increment, hooks, now>>

(* user_service.get_user_by_phone: the login of a phone whose code the    *)
(* caller has verified; it goes on as the password login does              *)
get_user_by_phone(c, phone) ==
    LET args == [phone |-> phone]
        auth == Select(user_auth, <<"sms", phone>>)
    IN  /\ Free(c)
        /\ IF auth = NoRow
           THEN /\ last_call' = Call("get_user_by_phone", args, ReturnsNone)
                /\ UNCHANGED calls
           ELSE /\ calls' = [calls EXCEPT ![c] = [IdleCall EXCEPT
                       !.pc = "auth", !.op = "get_user_by_phone",
                       !.user_id = auth.user_id, !.args = args,
                       !.auth = auth]]
                /\ UNCHANGED last_call
        /\ UNCHANGED <<db, row_lock, dialect, auto_increment, user_auth, hooks, now>>

(* user_service.bind_phone: the SELECT of the phone's credential.  A      *)
(* phone of another user raises, a phone this user has bound returns.     *)
bind_phone(c, user_id, phone) ==
    LET args == [user_id |-> user_id, phone |-> phone]
        existing == Select(user_auth, <<"sms", phone>>)
    IN  /\ Free(c)
        /\ IF existing # NoRow
           THEN /\ last_call' = Call("bind_phone", args,
                       IF existing.user_id # user_id THEN PhoneBound
                       ELSE ReturnsNone)
                /\ UNCHANGED calls
           ELSE /\ calls' = [calls EXCEPT ![c] = [IdleCall EXCEPT
                       !.pc = "add_auth", !.op = "bind_phone",
                       !.user_id = user_id, !.args = args]]
                /\ UNCHANGED last_call
        /\ UNCHANGED <<db, row_lock, dialect, auto_increment, user_auth, hooks, now>>

(* _add_auth and the commit of bind_phone: the INSERT fails on the unique *)
(* key when the phone was bound in the meantime, and on the foreign key   *)
(* when no user has the id (MySQL; SQLite does not enforce foreign keys   *)
(* unless the connection turns them on, which no code does)                *)
bind_phone_commit(c) ==
    LET tx == calls[c]
        key == <<"sms", tx.args.phone>>
    IN  /\ tx.pc = "add_auth"
        /\ IF key \in DOMAIN user_auth
           THEN /\ Return(c, DuplicateAuth)
                /\ UNCHANGED user_auth
           ELSE IF dialect = "mysql" /\ tx.user_id \notin DOMAIN users
           THEN /\ Return(c, ForeignKeyError)
                /\ UNCHANGED user_auth
           ELSE /\ user_auth' = user_auth @@
                       (key :> UserAuth(tx.user_id, None, None))
                /\ Return(c, ReturnsNone)
        /\ UNCHANGED <<db, row_lock, dialect, auto_increment, hooks, now>>

---------------------------------------------------------------------------
(* points_service: consume_for_creation, consume_for_page_edit and        *)
(* admin_adjust_points.  Each call selects the user FOR UPDATE, then      *)
(* checks, applies the ledger step and commits (or raises, which rolls    *)
(* back and releases the lock).                                           *)

LedgerOps ==
    {"consume_for_creation", "consume_for_page_edit", "admin_adjust_points"}

LedgerArgs(user_id, op, delta) ==
    IF op = "admin_adjust_points"
    THEN [user_id |-> user_id, delta |-> delta]
    ELSE [user_id |-> user_id]

select_user_for_update(c, user_id, op, delta) ==
    LET user == Select(users, user_id)
    IN  /\ Free(c)
        /\ Len(user_points_log) < MaxLog
        /\ IF user = NoRow
           THEN /\ last_call' = Call(op, LedgerArgs(user_id, op, delta),
                                     UserNotFound)
                /\ UNCHANGED <<row_lock, calls>>
           ELSE /\ with_for_update(user_id, [owner |-> "api", id |-> c])
                /\ calls' = [calls EXCEPT ![c] = [IdleCall EXCEPT
                       !.pc = "selected", !.op = op, !.user_id = user_id,
                       !.delta = delta, !.user = user,
                       !.args = LedgerArgs(user_id, op, delta)]]
                /\ UNCHANGED last_call
        /\ UNCHANGED <<db, dialect, auto_increment, user_auth, hooks, now>>

(* the transaction of call c ends: the attributes it changed and the      *)
(* entries it added are committed (nothing is, when the call raised),     *)
(* the lock is released, the outcome returned                             *)
LedgerEnd(c, users_after, logs, result) ==
    LET tx == calls[c]
    IN  /\ users' = users_after
        /\ user_points_log' = user_points_log \o logs
        /\ release([owner |-> "api", id |-> c])
        /\ calls' = [calls EXCEPT ![c] = IdleCall]
        /\ last_call' = Call(tx.op, LedgerArgs(tx.user_id, tx.op, tx.delta),
                             result)
        /\ UNCHANGED <<recharge_orders, subscription_orders, dialect, auto_increment, user_auth,
                       hooks, now>>

(* mutation: points are spent whenever the balance covers the cost, the   *)
(* free creation only otherwise                                            *)
consume_for_creation_points_first(c) ==
    LET tx == calls[c]
        user_id == tx.user_id
        r == _apply_points_delta(tx.user, user_id, -CREATION_COST,
                                 "creation_cost", None)
    IN  /\ tx.pc = "selected"
        /\ tx.op = "consume_for_creation"
        /\ IF tx.user.points_balance >= CREATION_COST
           THEN LedgerEnd(c,
                    [users EXCEPT ![user_id] = Flush(@, tx.user,
                        [points_balance |-> r.user.points_balance], {})],
                    <<r.log>>, Ok)
           ELSE IF tx.user.free_creation_remaining > 0
           THEN LedgerEnd(c,
                    [users EXCEPT ![user_id] = Flush(@, tx.user,
                        [free_creation_remaining |->
                            tx.user.free_creation_remaining - 1], {})],
                    <<>>, Ok)
           ELSE LedgerEnd(c, users, <<>>, InsufficientCreation)

consume_for_creation(c) ==
    LET tx == calls[c]
        user_id == tx.user_id
        r == _apply_points_delta(tx.user, user_id, -CREATION_COST,
                                 "creation_cost", None)
    IN  /\ tx.pc = "selected"
        /\ tx.op = "consume_for_creation"
        /\ IF tx.user.free_creation_remaining > 0
           THEN LedgerEnd(c,
                    [users EXCEPT ![user_id] = Flush(@, tx.user,
                        [free_creation_remaining |->
                            tx.user.free_creation_remaining - 1], {})],
                    <<>>, Ok)
           ELSE IF tx.user.points_balance < CREATION_COST
           THEN LedgerEnd(c, users, <<>>, InsufficientCreation)
           ELSE LedgerEnd(c,
                    [users EXCEPT ![user_id] = Flush(@, tx.user,
                        [points_balance |-> r.user.points_balance], {})],
                    <<r.log>>, Ok)

(* mutation: a page edit uses a free creation when one is left *)
consume_for_page_edit_free_first(c) ==
    LET tx == calls[c]
        user_id == tx.user_id
        r == _apply_points_delta(tx.user, user_id, -PAGE_EDIT_COST,
                                 "creation_cost", None)
    IN  /\ tx.pc = "selected"
        /\ tx.op = "consume_for_page_edit"
        /\ IF tx.user.free_creation_remaining > 0
           THEN LedgerEnd(c,
                    [users EXCEPT ![user_id] = Flush(@, tx.user,
                        [free_creation_remaining |->
                            tx.user.free_creation_remaining - 1], {})],
                    <<>>, Ok)
           ELSE IF tx.user.points_balance < PAGE_EDIT_COST
           THEN LedgerEnd(c, users, <<>>, InsufficientPageEdit)
           ELSE LedgerEnd(c,
                    [users EXCEPT ![user_id] = Flush(@, tx.user,
                        [points_balance |-> r.user.points_balance], {})],
                    <<r.log>>, Ok)

consume_for_page_edit(c) ==
    LET tx == calls[c]
        user_id == tx.user_id
        r == _apply_points_delta(tx.user, user_id, -PAGE_EDIT_COST,
                                 "creation_cost", None)
    IN  /\ tx.pc = "selected"
        /\ tx.op = "consume_for_page_edit"
        /\ IF tx.user.points_balance < PAGE_EDIT_COST
           THEN LedgerEnd(c, users, <<>>, InsufficientPageEdit)
           ELSE LedgerEnd(c,
                    [users EXCEPT ![user_id] = Flush(@, tx.user,
                        [points_balance |-> r.user.points_balance], {})],
                    <<r.log>>, Ok)

(* mutation: the adjustment is applied without the check of the result *)
admin_adjust_points_unchecked(c) ==
    LET tx == calls[c]
        user_id == tx.user_id
        r == _apply_points_delta(tx.user, user_id, tx.delta,
                                 "admin_adjust", None)
    IN  /\ tx.pc = "selected"
        /\ tx.op = "admin_adjust_points"
        /\ LedgerEnd(c,
               [users EXCEPT ![user_id] = Flush(@, tx.user,
                        [points_balance |-> r.user.points_balance], {})],
               <<r.log>>, Ok)

(* mutation: the balance is checked after the adjustment was committed *)
admin_adjust_points_check_late(c) ==
    LET tx == calls[c]
        user_id == tx.user_id
        r == _apply_points_delta(tx.user, user_id, tx.delta,
                                 "admin_adjust", None)
    IN  /\ tx.pc = "selected"
        /\ tx.op = "admin_adjust_points"
        /\ LedgerEnd(c,
               [users EXCEPT ![user_id] = Flush(@, tx.user,
                        [points_balance |-> r.user.points_balance], {})],
               <<r.log>>,
               IF r.user.points_balance < 0 THEN NegativeBalance ELSE Ok)

admin_adjust_points(c) ==
    LET tx == calls[c]
        user_id == tx.user_id
        r == _apply_points_delta(tx.user, user_id, tx.delta,
                                 "admin_adjust", None)
    IN  /\ tx.pc = "selected"
        /\ tx.op = "admin_adjust_points"
        /\ IF tx.user.points_balance + tx.delta < 0
           THEN LedgerEnd(c, users, <<>>, NegativeBalance)
           ELSE LedgerEnd(c,
                    [users EXCEPT ![user_id] = Flush(@, tx.user,
                        [points_balance |-> r.user.points_balance], {})],
                    <<r.log>>, Ok)

(* points_service.check_creation_points / check_page_edit_points: one     *)
(* plain SELECT and the checks on the loaded user; nothing is written     *)

check_creation_points_result(user) ==
    IF user = NoRow THEN UserNotFound
    ELSE IF user.free_creation_remaining > 0 THEN Ok
    ELSE IF user.points_balance < CREATION_COST THEN InsufficientPointsCreation
    ELSE Ok

check_page_edit_points_result(user) ==
    IF user = NoRow THEN UserNotFound
    ELSE IF user.points_balance < PAGE_EDIT_COST THEN InsufficientPointsPageEdit
    ELSE Ok

check_creation_points(user_id) ==
    /\ last_call' = Call("check_creation_points", [user_id |-> user_id],
                         check_creation_points_result(Select(users, user_id)))
    /\ UNCHANGED <<db, row_lock, dialect, auto_increment, user_auth, hooks, calls, now>>

check_page_edit_points(user_id) ==
    /\ last_call' = Call("check_page_edit_points", [user_id |-> user_id],
                         check_page_edit_points_result(Select(users, user_id)))
    /\ UNCHANGED <<db, row_lock, dialect, auto_increment, user_auth, hooks, calls, now>>

---------------------------------------------------------------------------
(* Time passes *)

Tick ==
    /\ now + TickDays <= MaxNow
    /\ now' = now + TickDays
    /\ UNCHANGED <<db, row_lock, dialect, auto_increment, user_auth, hooks, calls, last_call>>

---------------------------------------------------------------------------
(* Inputs *)

CallerIds == Users \cup {NumUsers + 1}
AmountsFen == {-100, 0, 50, 400}
MonthsChoices == {0, 1, 2}
AdminDeltas == {-5, 10}
Deltas(op) == IF op = "admin_adjust_points" THEN AdminDeltas ELSE {0}
Endpoints == {"recharge", "subscription"}
Nicknames == {None, "nick0", "nick1"}
AvatarUrls == {None, "a.png", "b.png"}
ExpireChoices == {<<NoTime, FALSE>>, <<30, FALSE>>, <<30, TRUE>>}
PayChannelChoices == PayChannels \cup {"app"}
Accounts == {AccountPool[i] : i \in 1..(NumUsers + 1)}
Passwords == {"secret1", "secret2"}
OpenIds == {"openid1"}
UnionIds == {None, "union1"}
Phones == {"phone1"}

Next ==
    \/ \E d \in Deliveries, e \in Endpoints :
          \E body \in AllBodies(e) : notify(d, e, body)
    \/ \E d \in Deliveries : handle_recharge_paid_select(d)
    \/ \E d \in Deliveries : handle_recharge_paid_commit(d)
    \/ \E d \in Deliveries : credit_recharge_points_select(d)
    \/ \E d \in Deliveries : credit_recharge_points_commit(d)
    \/ \E d \in Deliveries : handle_subscription_paid_select(d)
    \/ \E d \in Deliveries : handle_subscription_paid_user(d)
    \/ \E d \in Deliveries : handle_subscription_paid_commit(d)
    \/ \E d \in Deliveries : notify_db_error(d)
    \/ \E c \in Callers, u \in Users, a \in AmountsFen, no \in RechargeNos :
          create_recharge_order(c, u, a, no)
    \/ \E c \in Callers, u \in Users, l \in MembershipLevel,
          m \in MonthsChoices, a \in AmountsFen, no \in SubscriptionNos :
          create_subscription_order(c, u, l, m, a, no)
    \/ \E c \in Callers, u \in CallerIds, op \in LedgerOps :
          \E delta \in Deltas(op) : select_user_for_update(c, u, op, delta)
    \/ \E c \in Callers : consume_for_creation(c)
    \/ \E c \in Callers : consume_for_page_edit(c)
    \/ \E c \in Callers : admin_adjust_points(c)
    \/ \E u \in CallerIds : check_creation_points(u)
    \/ \E u \in CallerIds : check_page_edit_points(u)
    \/ \E c \in Callers, u \in CallerIds, l \in MembershipLevel,
          e \in ExpireChoices :
             admin_set_membership_select(c, u, l, e[1], e[2])
    \/ \E c \in Callers : admin_set_membership_commit(c)
    \/ \E c \in Callers, u \in Users, a \in AmountsFen,
          ch \in PayChannelChoices, no \in RechargeNos :
          create_recharge(c, u, a, ch, no)
    \/ \E c \in Callers, u \in Users, l \in MembershipLevel,
          m \in MonthsChoices, a \in AmountsFen, ch \in PayChannelChoices,
          no \in SubscriptionNos : create_subscription(c, u, l, m, a, ch, no)
    \/ \E c \in Callers, answer \in ProviderAnswers :
          create_order_answered(c, answer)
    \/ \E c \in Callers, u \in CallerIds, n \in Nicknames,
          a \in AvatarUrls : update_profile_select(c, u, n, a)
    \/ \E c \in Callers : update_profile_commit(c)
    \/ \E c \in Callers, u \in CallerIds, st \in UserStatus \cup {None},
          r \in UserRole \cup {None} : admin_update_user_select(c, u, st, r)
    \/ \E c \in Callers : admin_update_user_commit(c)
    \/ \E c \in Callers : refresh(c)
    \/ \E c \in Callers, n \in Nicknames \ {None}, a \in Accounts,
          pw \in Passwords : register_with_password(c, n, a, pw)
    \/ \E c \in Callers, a \in Accounts, pw \in Passwords :
          login_by_password(c, a, pw)
    \/ \E c \in Callers, o \in OpenIds, n \in Nicknames \ {None},
          a \in AvatarUrls, un \in UnionIds :
          get_or_create_wechat_user(c, o, n, a, un)
    \/ \E c \in Callers : login_select_user(c)
    \/ \E c \in Callers : login_commit(c)
    \/ \E c \in Callers : _create_user(c)
    \/ \E c \in Callers : _add_auth(c)
    \/ \E c \in Callers, ph \in Phones : get_user_by_phone(c, ph)
    \/ \E c \in Callers, u \in UserIds, ph \in Phones : bind_phone(c, u, ph)
    \/ \E c \in Callers : bind_phone_commit(c)
    \/ Tick

Spec == Init /\ [][Next]_vars

---------------------------------------------------------------------------
(* Scenarios: the parts of the system a group of properties is about,     *)
(* each a sub-system of Next with inputs that keep it explorable.          *)

RechargeSettlement(d) ==
    \/ handle_recharge_paid_select(d)
    \/ handle_recharge_paid_commit(d)
    \/ credit_recharge_points_select(d)
    \/ credit_recharge_points_commit(d)

SubscriptionSettlement(d) ==
    \/ handle_subscription_paid_select(d)
    \/ handle_subscription_paid_user(d)
    \/ handle_subscription_paid_commit(d)

LedgerStart(ids) ==
    \E c \in Callers, u \in ids, op \in LedgerOps :
        \E delta \in Deltas(op) : select_user_for_update(c, u, op, delta)

LedgerFinish ==
    \/ \E c \in Callers : consume_for_creation(c)
    \/ \E c \in Callers : consume_for_page_edit(c)
    \/ \E c \in Callers : admin_adjust_points(c)

LedgerCalls(ids) == LedgerStart(ids) \/ LedgerFinish

(* the ledger transactions between their SELECT and their commit *)
LedgerTxs(u) ==
    {<<"api", c>> : c \in {c \in Callers :
        /\ calls[c].pc = "selected"
        /\ calls[c].op \in LedgerOps
        /\ calls[c].user_id = u}}
    \cup {<<"hook", d>> : d \in {d \in Deliveries :
        hooks[d].pc = "credit_commit" /\ hooks[d].order.user_id = u}}

NoLedgerTx == \A u \in Users : LedgerTxs(u) = {}

(* no service call and no endpoint is in flight *)
NoCallInFlight == \A c \in Callers : calls[c].pc = "idle"

(* recharge orders, created one at a time, their webhooks as the provider *)
(* sends them, failures                                                    *)
NextRecharge ==
    \/ \E c \in Callers, u \in Users, a \in {0, 50, 400}, no \in RechargeNos :
          NoCallInFlight /\ create_recharge_order(c, u, a, no)
    \/ \E c \in Callers : refresh(c)
    \/ \E d \in Deliveries : \E body \in ProviderBodies(RechargeNos) :
          notify(d, "recharge", body)
    \/ \E d \in Deliveries : RechargeSettlement(d)
    \/ \E d \in Deliveries : notify_db_error(d)
    \/ Tick

SpecRecharge == Init /\ [][NextRecharge]_vars

SuccessBody(order_no) == ProviderBody(Plaintext(order_no, "tx1", "SUCCESS"))

(* the ledger: every balance mutation, recharge credits included *)
NextLedger ==
    \/ LedgerCalls(Users)
    \/ \E c \in Callers, u \in Users : create_recharge_order(c, u, 400, "RC1")
    \/ \E c \in Callers : refresh(c)
    \/ \E d \in Deliveries : notify(d, "recharge", SuccessBody("RC1"))
    \/ \E d \in Deliveries : RechargeSettlement(d)

SpecLedger == Init /\ [][NextLedger]_vars

(* the calls of points_service alone: debits, adjustments, pre-checks *)
NextPoints ==
    \/ LedgerCalls(CallerIds)
    \/ \E u \in CallerIds : check_creation_points(u)
    \/ \E u \in CallerIds : check_page_edit_points(u)

SpecPoints == Init /\ [][NextPoints]_vars

(* a ledger call starts when no other is between its SELECT and commit *)
NextPointsSerial ==
    \/ NoLedgerTx /\ LedgerStart(CallerIds)
    \/ LedgerFinish

SpecPointsSerial == Init /\ [][NextPointsSerial]_vars

(* recharge orders of several amounts and their settlement *)
ConversionAmounts == {50, 199, 1000}

NextConversion ==
    \/ \E c \in Callers, u \in Users, a \in ConversionAmounts, no \in RechargeNos :
          create_recharge_order(c, u, a, no)
    \/ \E c \in Callers : refresh(c)
    \/ \E d \in Deliveries, no \in RechargeNos :
          notify(d, "recharge", SuccessBody(no))
    \/ \E d \in Deliveries : RechargeSettlement(d)
    \/ \E d \in Deliveries : notify_db_error(d)

SpecConversion == Init /\ [][NextConversion]_vars

(* subscription orders and the deliveries of their SUCCESS webhook *)
NextSubscription ==
    \/ \E c \in Callers, u \in Users, l \in {"lite", "pro"}, m \in {1, 2},
          no \in SubscriptionNos :
          NoCallInFlight /\ create_subscription_order(c, u, l, m, 400, no)
    \/ \E c \in Callers : refresh(c)
    \/ \E d \in Deliveries, no \in SubscriptionNos :
          notify(d, "subscription", SuccessBody(no))
    \/ \E d \in Deliveries : SubscriptionSettlement(d)
    \/ \E d \in Deliveries : notify_db_error(d)
    \/ Tick

SpecSubscription == Init /\ [][NextSubscription]_vars

(* the two endpoints under every body, well-formed or not *)
NextNotify ==
    \/ \E c \in Callers, u \in Users, no \in RechargeNos :
          NoCallInFlight /\ create_recharge_order(c, u, 400, no)
    \/ \E c \in Callers, u \in Users, no \in SubscriptionNos :
          NoCallInFlight /\ create_subscription_order(c, u, "pro", 1, 400, no)
    \/ \E c \in Callers : refresh(c)
    \/ \E d \in Deliveries, e \in Endpoints :
          \E body \in AllBodies(e) : notify(d, e, body)
    \/ \E d \in Deliveries : RechargeSettlement(d)
    \/ \E d \in Deliveries : SubscriptionSettlement(d)
    \/ \E d \in Deliveries : notify_db_error(d)

SpecNotify == Init /\ [][NextNotify]_vars

(* no call has returned yet *)
NoneReturned == last_call = NoCall

(* every writer of the users table next to each other: settlements of    *)
(* both kinds, a ledger operation, the calls of user_service, a           *)
(* registration and logins of both kinds, and the administrator's setting *)
(* of the membership.  Calls start until the first of them has returned,  *)
(* so up to MaxCalls of them overlap with each other and with the steps   *)
(* of the two settlements.                                                 *)
NextWriters ==
    \/ \E c \in Callers, u \in Users : create_recharge_order(c, u, 400, "RC1")
    \/ \E c \in Callers, u \in Users :
          create_subscription_order(c, u, "pro", 1, 400, "SUB1")
    \/ notify(1, "recharge", SuccessBody("RC1"))
    \/ notify(2, "subscription", SuccessBody("SUB1"))
    \/ \E d \in Deliveries : RechargeSettlement(d)
    \/ \E d \in Deliveries : SubscriptionSettlement(d)
    \/ NoneReturned /\ user_points_log = <<>> /\ LedgerStart(Users)
    \/ LedgerFinish
    \/ \E c \in Callers, u \in CallerIds :
          NoneReturned /\ update_profile_select(c, u, "nick1", None)
    \/ \E c \in Callers : update_profile_commit(c)
    \/ \E c \in Callers, u \in CallerIds :
          NoneReturned /\ admin_update_user_select(c, u, "banned", None)
    \/ \E c \in Callers : admin_update_user_commit(c)
    \/ \E c \in Callers : refresh(c)
    \/ \E c \in Callers, u \in CallerIds :
          NoneReturned /\ admin_set_membership_select(c, u, "max", 30, TRUE)
    \/ \E c \in Callers : admin_set_membership_commit(c)
    \/ \E c \in Callers :
          NoneReturned /\ register_with_password(c, "nick1", "acct2", "secret1")
    \/ \E c \in Callers :
          NoneReturned /\ login_by_password(c, "acct1", "secret1")
    \/ \E c \in Callers :
          /\ NoneReturned
          /\ get_or_create_wechat_user(c, "openid1", "nick1", None, None)
    \/ \E c \in Callers : login_select_user(c)
    \/ \E c \in Callers : login_commit(c)
    \/ \E c \in Callers : _create_user(c)
    \/ \E c \in Callers : _add_auth(c)
    \/ \E c \in Callers : NoneReturned /\ get_user_by_phone(c, "phone1")
    \/ \E c \in Callers, u \in UserIds :
          NoneReturned /\ bind_phone(c, u, "phone1")
    \/ \E c \in Callers : bind_phone_commit(c)

SpecWriters == Init /\ [][NextWriters]_vars

(* the answers of the provider that end an order request in each way *)
SomeAnswers ==
    {NoResponse(TimeoutException),
     Response(200, JsonObject({"code_url"})),
     Response(202, JsonObject({"code_url"})),
     Response(200, NotJson),
     Response(200, JsonObject({}))}

(* the two order endpoints, one request at a time, under these answers,  *)
(* and the SUCCESS webhooks of the orders                                  *)
NextProvider ==
    \/ \E c \in Callers, u \in Users, a \in {0, 400} :
          NoCallInFlight /\ create_recharge(c, u, a, "native", "RC1")
    \/ \E c \in Callers, u \in Users, m \in {0, 1}, no \in SubscriptionNos :
          /\ NoCallInFlight
          /\ create_subscription(c, u, "pro", m, 400, "native", no)
    \/ \E c \in Callers : refresh(c)
    \/ \E c \in Callers, answer \in SomeAnswers :
          create_order_answered(c, answer)
    \/ \E d \in Deliveries, e \in Endpoints :
          \E no \in EndpointNos(e) : notify(d, e, SuccessBody(no))
    \/ \E d \in Deliveries : RechargeSettlement(d)
    \/ \E d \in Deliveries : SubscriptionSettlement(d)

SpecProvider == Init /\ [][NextProvider]_vars

(* order creation under every input *)
NextOrders ==
    \/ \E c \in Callers, u \in Users, a \in AmountsFen, no \in RechargeNos :
          create_recharge_order(c, u, a, no)
    \/ \E c \in Callers, u \in Users, l \in MembershipLevel, m \in MonthsChoices,
          a \in {0, 400}, no \in SubscriptionNos :
          create_subscription_order(c, u, l, m, a, no)
    \/ \E c \in Callers : refresh(c)

SpecOrders == Init /\ [][NextOrders]_vars

---------------------------------------------------------------------------
(* Properties *)

UserEntries(u) == SelectSeq(user_points_log, LAMBDA e : e.user_id = u)

RECURSIVE SumDelta(_)
SumDelta(entries) ==
    IF entries = <<>> THEN 0
    ELSE entries[1].delta + SumDelta(Tail(entries))

RechargeEntries(order_no) ==
    {i \in DOMAIN user_points_log :
        /\ user_points_log[i].type = "recharge"
        /\ user_points_log[i].related_order_id = order_no}

Done(d) == hooks[d].pc = "done"

(* C1: for every user, points_balance equals the sum of delta over the    *)
(* user's ledger entries and the balance_after of the user's latest entry *)
(* (0 when there is none).                                                 *)
C1_BalanceIsLedgerSum ==
    \A u \in Users :
        LET entries == UserEntries(u)
        IN  /\ users[u].points_balance = SumDelta(entries)
            /\ users[u].points_balance =
                   IF entries = <<>> THEN 0
                   ELSE entries[Len(entries)].balance_after

(* C2: whatever the deliveries of a recharge SUCCESS webhook and their    *)
(* interleaving, the ledger holds at most one recharge entry per order.   *)
C2_NoDoubleCredit ==
    \A o \in RechargeNos : Cardinality(RechargeEntries(o)) <= 1

(* C3: a recharge settlement that selects no order fails with             *)
(* OrderNotFound, one that selects a non-pending order fails with         *)
(* AlreadyProcessed; the failing step ends the handler and changes no     *)
(* order, user or ledger row.                                              *)
C3_IdempotencyGate ==
    [][\A d \in Deliveries :
        LET h == hooks[d]
            order == Select(recharge_orders, h.order_no)
        IN  (/\ h.pc = "recharge_select"
             /\ hooks'[d] # h
             /\ hooks'[d].error # DBError)
            => /\ (order = NoRow) => (hooks'[d].error = OrderNotFound)
               /\ (order # NoRow /\ order.status # "pending")
                    => (hooks'[d].error = AlreadyProcessed)
               /\ (hooks'[d].error \in {OrderNotFound, AlreadyProcessed})
                    => (hooks'[d].pc = "done" /\ UNCHANGED db)
      ]_vars

C3_Witness ==
    \E d, e \in Deliveries :
        /\ Done(d) /\ hooks[d].error = Ok /\ hooks[d].trade_state = "SUCCESS"
        /\ Done(e) /\ hooks[e].error = AlreadyProcessed
        /\ hooks[e].order_no = hooks[d].order_no
        /\ recharge_orders[hooks[d].order_no].status = "paid"
        /\ Cardinality(RechargeEntries(hooks[d].order_no)) = 1

(* C4: once the provider has delivered the SUCCESS webhook of an order    *)
(* as often as it retries and every delivery has been answered, an order  *)
(* that reached paid has its recharge entry in the ledger.                 *)
C4_NoLostCredit ==
    \A o \in DOMAIN recharge_orders :
        (/\ recharge_orders[o].status = "paid"
         /\ \A d \in Deliveries :
               /\ Done(d)
               /\ hooks[d].order_no = o
               /\ hooks[d].trade_state = "SUCCESS")
        => RechargeEntries(o) # {}

(* C5: a subscription order is activated once: after it is active no      *)
(* delivery of its webhook writes its row (start_at, expire_at, ...)      *)
(* again, so its months are added once.                                    *)
C5_ActivatedOnce ==
    [][\A o \in DOMAIN subscription_orders :
        (subscription_orders[o].status = "active")
        => (subscription_orders'[o] = subscription_orders[o])
      ]_vars

(* C6: every answered webhook request has code SUCCESS or FAIL, and FAIL  *)
(* whenever an error occurred while handling it.                           *)
C6_AlwaysAnswers ==
    \A d \in Deliveries :
        Done(d) =>
            /\ hooks[d].response.code \in {"SUCCESS", "FAIL"}
            /\ (hooks[d].error # Ok) => (hooks[d].response.code = "FAIL")

C6_Witness ==
    \E d, e \in Deliveries :
        /\ Done(d) /\ hooks[d].error = JSONDecodeError
        /\ hooks[d].response.code = "FAIL"
        /\ Done(e) /\ hooks[e].error = DBError
        /\ hooks[e].response.code = "FAIL"

(* C7: a SUCCESS webhook re-delivered for an already processed order is   *)
(* answered with code SUCCESS.                                             *)
C7_RedeliveryAcknowledged ==
    \A d \in Deliveries :
        (Done(d) /\ hooks[d].error = AlreadyProcessed)
        => (hooks[d].response.code = "SUCCESS")

(* C8: a request whose resource fails authentication is answered FAIL in  *)
(* the step that receives it, none of its plaintext is kept, and no       *)
(* order, ledger entry or user is changed.                                 *)
C8_FailClosed ==
    [][\A d \in Deliveries, e \in Endpoints :
        \A body \in ForgedBodies(EndpointNos(e)) :
            notify(d, e, body)
            => /\ hooks'[d].pc = "done"
               /\ hooks'[d].response.code = "FAIL"
               /\ hooks'[d].order_no = None
               /\ hooks'[d].tx_id = None
               /\ UNCHANGED db
      ]_vars

C8_Witness ==
    \E d \in Deliveries :
        /\ Done(d) /\ hooks[d].error = InvalidTag
        /\ hooks[d].response.code = "FAIL"
        /\ \E o \in DOMAIN recharge_orders :
              recharge_orders[o].status = "pending"

(* C9: a recharge order only goes pending -> paid or pending -> failed    *)
(* (and paid -> refunded); once it is not pending its status,             *)
(* wechat_transaction_id and paid_at never change.                         *)
C9_RechargeStatusOneWay ==
    [][\A o \in DOMAIN recharge_orders :
        LET old == recharge_orders[o]
            new == recharge_orders'[o]
        IN  /\ (old.status = "pending")
                 => (new.status \in {"pending", "paid", "failed"})
            /\ (old.status # "pending")
                 => /\ \/ new.status = old.status
                       \/ old.status = "paid" /\ new.status = "refunded"
                    /\ new.wechat_transaction_id = old.wechat_transaction_id
                    /\ new.paid_at = old.paid_at
      ]_vars

(* C10: a create call with an invalid amount, level or months fails with  *)
(* a validation error and inserts nothing; every stored order has a       *)
(* positive amount, every stored subscription order a paid level and at   *)
(* least one month.                                                        *)
InvalidRechargeArgs(args) == args.amount_fen <= 0

InvalidSubscriptionArgs(args) ==
    args.level = "free" \/ args.months <= 0 \/ args.amount_fen <= 0

C10_ValidateBeforeInsert ==
    [][
        /\ (last_call' # last_call
                /\ last_call'.op = "create_recharge_order"
                /\ InvalidRechargeArgs(last_call'.args))
            => (last_call'.result.exc = "ValueError" /\ UNCHANGED db)
        /\ (last_call' # last_call
                /\ last_call'.op = "create_subscription_order"
                /\ InvalidSubscriptionArgs(last_call'.args))
            => (last_call'.result.exc = "ValueError" /\ UNCHANGED db)
        /\ \A o \in DOMAIN recharge_orders' :
              recharge_orders'[o].amount_fen > 0
        /\ \A o \in DOMAIN subscription_orders' :
              /\ subscription_orders'[o].level \in {"lite", "pro", "max"}
              /\ subscription_orders'[o].months >= 1
              /\ subscription_orders'[o].amount_fen > 0
      ]_vars

C10_Witness ==
    /\ last_call.op = "create_subscription_order"
    /\ last_call.result = InvalidMonths
    /\ DOMAIN subscription_orders # {}
    /\ DOMAIN recharge_orders # {}

(* C11: every recharge order, pending or settled, has points_amount =     *)
(* floor(amount_fen / 100) * 3, and every recharge entry of the ledger    *)
(* credits exactly the points_amount of the order it names.               *)
C11_PointsConversion ==
    /\ \A o \in DOMAIN recharge_orders :
          recharge_orders[o].points_amount =
              (recharge_orders[o].amount_fen \div 100) * 3
    /\ \A i \in DOMAIN user_points_log :
          user_points_log[i].type = "recharge"
          => /\ user_points_log[i].related_order_id \in DOMAIN recharge_orders
             /\ user_points_log[i].delta =
                    recharge_orders[user_points_log[i].related_order_id]
                        .points_amount

C11_Witness ==
    \E o \in DOMAIN recharge_orders :
        /\ recharge_orders[o].amount_fen = 1000
        /\ recharge_orders[o].points_amount = 30
        /\ recharge_orders[o].status = "paid"
        /\ \E i \in RechargeEntries(o) : user_points_log[i].delta = 30
        /\ \E q \in DOMAIN recharge_orders :
              /\ recharge_orders[q].amount_fen = 199
              /\ recharge_orders[q].points_amount = 3

(* C15: the ledger operations on a user are serialized: no two of them    *)
(* are between their read of the balance and their commit at the same     *)
(* time, and whenever none is in flight the balance is the sum of the     *)
(* deltas of all operations that succeeded (no update is lost).           *)
C15_SerializedPerUser ==
    \A u \in Users :
        /\ Cardinality(LedgerTxs(u)) <= 1
        /\ (LedgerTxs(u) = {})
             => (users[u].points_balance = SumDelta(UserEntries(u)))

(* the step of a subscription settlement that reads the user and the      *)
(* clock and computes the expiry, for the order and user it reads         *)
ComputesExpiry(d) ==
    /\ hooks[d].pc = "subscription_user"
    /\ hooks'[d] # hooks[d]
    /\ hooks'[d].error # DBError
    /\ hooks[d].order.user_id \in DOMAIN users

SameTierActive(user, order) ==
    /\ user.membership_level = order.level
    /\ user.membership_expire_at # NoTime
    /\ user.membership_expire_at > now

(* C12: a settlement for a user whose level is the order's level and      *)
(* whose membership_expire_at is later than now sets the order's          *)
(* expire_at and the user's membership_expire_at to the old               *)
(* membership_expire_at plus 30 * months days.                            *)
C12_SameTierRenewal ==
    [][\A d \in Deliveries :
        LET order == hooks[d].order
            user == users[order.user_id]
        IN  (ComputesExpiry(d) /\ SameTierActive(user, order))
            => /\ hooks'[d].pc = "subscription_commit"
               /\ hooks'[d].order.expire_at =
                      user.membership_expire_at + 30 * order.months
               /\ hooks'[d].user.membership_expire_at =
                      user.membership_expire_at + 30 * order.months
      ]_vars

(* C13: a settlement for a user of another level, or whose                *)
(* membership_expire_at is null or not later than now, sets the expiry    *)
(* to now plus 30 * months days and the level to the order's level.       *)
C13_ResetOnNonRenewal ==
    [][\A d \in Deliveries :
        LET order == hooks[d].order
            user == users[order.user_id]
        IN  (ComputesExpiry(d) /\ ~SameTierActive(user, order))
            => /\ hooks'[d].pc = "subscription_commit"
               /\ hooks'[d].order.expire_at = now + 30 * order.months
               /\ hooks'[d].user.membership_expire_at = now + 30 * order.months
               /\ hooks'[d].user.membership_level = order.level
      ]_vars

(* C14: an order is written only by the step that makes it active, and    *)
(* that step writes the user's membership_level and membership_expire_at  *)
(* from the order in the same commit; the membership never changes in a   *)
(* step that does not activate an order of that user.                     *)
C14_SettlesInOneStep ==
    [][/\ \A o \in DOMAIN subscription_orders :
             LET old == subscription_orders[o]
                 new == subscription_orders'[o]
             IN  (new # old)
                 => /\ new.status = "active"
                    /\ users'[old.user_id].membership_level = new.level
                    /\ users'[old.user_id].membership_expire_at = new.expire_at
       /\ \A u \in Users :
             (\/ users'[u].membership_level # users[u].membership_level
              \/ users'[u].membership_expire_at # users[u].membership_expire_at)
             => \E o \in DOMAIN subscription_orders :
                   /\ subscription_orders[o].user_id = u
                   /\ subscription_orders'[o] # subscription_orders[o]
                   /\ subscription_orders'[o].status = "active"
      ]_vars

C14_Witness ==
    \E o, q \in DOMAIN subscription_orders :
        /\ subscription_orders[o].status = "active"
        /\ users[subscription_orders[o].user_id].membership_level =
               subscription_orders[o].level
        /\ users[subscription_orders[o].user_id].membership_expire_at =
               subscription_orders[o].expire_at
        /\ subscription_orders[q].status = "pending"
        /\ \E d \in Deliveries :
              /\ Done(d) /\ hooks[d].order_no = q
              /\ hooks[d].error = DBError

(* C16: two orders of one user and one level, the second settled while    *)
(* the membership bought by the first is running, extend the membership   *)
(* by the months of both: membership_expire_at is the start of the first  *)
(* plus 30 * (m1 + m2) days.                                               *)
C16_NoLostExtension ==
    \A o1, o2 \in DOMAIN subscription_orders :
        LET a == subscription_orders[o1]
            b == subscription_orders[o2]
        IN  (/\ o1 # o2
             /\ a.user_id = b.user_id /\ a.level = b.level
             /\ a.status = "active" /\ b.status = "active"
             /\ a.start_at <= b.start_at
             /\ b.start_at < a.start_at + 30 * a.months
             /\ users[a.user_id].membership_level = a.level)
            => users[a.user_id].membership_expire_at =
                   a.start_at + 30 * (a.months + b.months)

(* a step in which call c of operation op returns *)
Returns(c, op) ==
    /\ calls[c].pc = "selected"
    /\ calls[c].op = op
    /\ calls'[c].pc = "idle"

(* C17: a debit that the balance read by the call does not cover is       *)
(* rejected with the operation's insufficient-balance error, and the      *)
(* step that rejects it leaves every user field and the ledger as they    *)
(* were: consume_for_creation with no free creation and balance < 10,     *)
(* consume_for_page_edit with balance < 1, admin_adjust_points with       *)
(* balance + delta < 0.                                                    *)
C17_RejectedDebitChangesNothing ==
    [][\A c \in Callers :
        LET read == calls[c].user
        IN  /\ (/\ Returns(c, "consume_for_creation")
                /\ read.free_creation_remaining = 0
                /\ read.points_balance < 10)
               => (last_call'.result = InsufficientCreation /\ UNCHANGED db)
            /\ (/\ Returns(c, "consume_for_page_edit")
                /\ read.points_balance < 1)
               => (last_call'.result = InsufficientPageEdit /\ UNCHANGED db)
            /\ (/\ Returns(c, "admin_adjust_points")
                /\ read.points_balance + calls[c].delta < 0)
               => (last_call'.result = NegativeBalance /\ UNCHANGED db)
      ]_vars

C17_Witness ==
    /\ last_call.op = "consume_for_creation"
    /\ last_call.result = InsufficientCreation
    /\ users[1].points_balance = 5
    /\ users[1].free_creation_remaining = 0
    /\ Len(user_points_log) = 2

PreChecks == {"check_creation_points", "check_page_edit_points"}

(* C18: a call rejected for insufficient balance fails with an error     *)
(* whose kind is not the kind of the operation's other failure, an        *)
(* unknown user, so that a caller can tell the two apart.  The kind is    *)
(* the exception class, which is what an except clause selects on; the    *)
(* message is free text that embeds the balance.  It holds of the two     *)
(* pre-checks and fails for the three ledger operations, which raise      *)
(* ValueError for both.                                                    *)
C18_InsufficientDistinguishable ==
    [][/\ \A c \in Callers : \A op \in LedgerOps :
             (Returns(c, op) /\ last_call'.result # Ok)
             => (last_call'.result.exc # UserNotFound.exc)
       /\ (/\ last_call' # last_call
           /\ last_call'.op \in PreChecks
           /\ last_call'.args.user_id \in DOMAIN users
           /\ last_call'.result # Ok)
          => (last_call'.result.exc # UserNotFound.exc)
      ]_vars

(* C19: consume_for_creation with a free creation left takes exactly one  *)
(* of them, writes no ledger entry and leaves points_balance unchanged,   *)
(* whatever the balance; with none left and a balance of at least 10 it   *)
(* debits 10 points with exactly one creation_cost entry and leaves       *)
(* free_creation_remaining unchanged.                                      *)
C19_FreeTierFirst ==
    [][\A c \in Callers :
        Returns(c, "consume_for_creation")
        => LET u == calls[c].user_id
               old == users[u]
               new == users'[u]
           IN  /\ (old.free_creation_remaining > 0)
                  => /\ last_call'.result = Ok
                     /\ new.free_creation_remaining =
                            old.free_creation_remaining - 1
                     /\ new.points_balance = old.points_balance
                     /\ user_points_log' = user_points_log
               /\ (old.free_creation_remaining = 0 /\ old.points_balance >= 10)
                  => /\ last_call'.result = Ok
                     /\ new.points_balance = old.points_balance - 10
                     /\ new.free_creation_remaining = 0
                     /\ Len(user_points_log') = Len(user_points_log) + 1
                     /\ SubSeq(user_points_log', 1, Len(user_points_log)) =
                            user_points_log
                     /\ LET e == user_points_log'[Len(user_points_log')]
                        IN  /\ e.user_id = u
                            /\ e.type = "creation_cost"
                            /\ e.delta = -10
      ]_vars

C19_Witness ==
    /\ last_call.op = "consume_for_creation"
    /\ last_call.result = Ok
    /\ users[1].free_creation_remaining = 0
    /\ users[1].points_balance = 10
    /\ Len(user_points_log) = 1
    /\ user_points_log[1].type = "admin_adjust"

(* C20: consume_for_page_edit on a balance of at least 1 debits exactly   *)
(* 1 point (less than the creation cost) with exactly one ledger entry,   *)
(* and whether it debits or rejects it leaves free_creation_remaining as  *)
(* it was, whatever its value.                                             *)
C20_PageEditIgnoresFreeTier ==
    [][\A c \in Callers :
        Returns(c, "consume_for_page_edit")
        => LET u == calls[c].user_id
               old == users[u]
               new == users'[u]
           IN  /\ new.free_creation_remaining = old.free_creation_remaining
               /\ PAGE_EDIT_COST < CREATION_COST
               /\ (old.points_balance >= 1)
                  => /\ last_call'.result = Ok
                     /\ new.points_balance = old.points_balance - 1
                     /\ Len(user_points_log') = Len(user_points_log) + 1
                     /\ SubSeq(user_points_log', 1, Len(user_points_log)) =
                            user_points_log
                     /\ LET e == user_points_log'[Len(user_points_log')]
                        IN  e.user_id = u /\ e.delta = -1
      ]_vars

C20_Witness ==
    /\ last_call.op = "consume_for_page_edit"
    /\ last_call.result = Ok
    /\ users[1].free_creation_remaining = 1
    /\ users[1].points_balance = 9
    /\ user_points_log[Len(user_points_log)].delta = -1

(* C21: a create call with valid arguments never fails, whatever number   *)
(* _gen_order_no produces: when the number is taken the generation is     *)
(* retried and the call returns a new pending order.                       *)
C21_CollisionRetried ==
    /\ (last_call.op = "create_recharge_order"
            /\ ~InvalidRechargeArgs(last_call.args))
        => /\ last_call.result.exc = None
           /\ last_call.result.value.status = "pending"
    /\ (last_call.op = "create_subscription_order"
            /\ ~InvalidSubscriptionArgs(last_call.args))
        => /\ last_call.result.exc = None
           /\ last_call.result.value.status = "pending"

(* C27: every recharge entry of the ledger names a recharge order, has    *)
(* that order's user, and a delta that is positive and equal to the       *)
(* order's points_amount, for every amount_fen > 0.                        *)
C27_RechargeEntryPositive ==
    \A i \in DOMAIN user_points_log :
        LET e == user_points_log[i]
        IN  e.type = "recharge"
            => /\ e.related_order_id \in DOMAIN recharge_orders
               /\ e.user_id = recharge_orders[e.related_order_id].user_id
               /\ e.delta = recharge_orders[e.related_order_id].points_amount
               /\ e.delta > 0

(* C28: the ratio of the RechargeOrder docstring and of the module        *)
(* docstring of payment_service, 1 yuan = 7 points: every recharge order  *)
(* has points_amount = floor(amount_fen / 100) * 7.                        *)
C28_SevenPointsPerYuan ==
    \A o \in DOMAIN recharge_orders :
        recharge_orders[o].points_amount =
            (recharge_orders[o].amount_fen \div 100) * 7

(* C26: a recharge entry of the ledger exists only for a recharge order   *)
(* that exists, is paid (or refunded) and belongs to the user of the      *)
(* entry, and the step that writes the entry finds the order's status     *)
(* already committed.                                                      *)
C26_CreditAfterPayment ==
    [][/\ \A i \in DOMAIN user_points_log' :
            LET e == user_points_log'[i]
            IN  e.type = "recharge"
                => /\ e.related_order_id \in DOMAIN recharge_orders'
                   /\ recharge_orders'[e.related_order_id].status
                          \in {"paid", "refunded"}
                   /\ recharge_orders'[e.related_order_id].user_id = e.user_id
       /\ (Len(user_points_log') > Len(user_points_log)
              /\ user_points_log'[Len(user_points_log')].type = "recharge")
          => LET o == user_points_log'[Len(user_points_log')].related_order_id
             IN  /\ o \in DOMAIN recharge_orders
                 /\ recharge_orders[o].status = "paid"
      ]_vars

C26_Witness ==
    /\ Len(user_points_log) = 1
    /\ user_points_log[1].type = "recharge"
    /\ user_points_log[1].related_order_id = "RC2"
    /\ user_points_log[1].delta = 12
    /\ recharge_orders["RC2"].status = "paid"
    /\ "RC1" \in DOMAIN recharge_orders
    /\ recharge_orders["RC1"].status = "pending"

(* C25: a webhook that decrypts and names an order, and whose trade_state *)
(* is not SUCCESS or is absent, is answered at once: the step changes no  *)
(* order, no ledger entry and no user, and the request never reaches a    *)
(* settlement step.                                                        *)
C25_OnlySuccessSettles ==
    [][\A d \in Deliveries :
        /\ (/\ hooks[d].pc = "idle"
            /\ hooks'[d].pc # "idle"
            /\ hooks'[d].order_no # None
            /\ hooks'[d].trade_state # "SUCCESS")
           => (hooks'[d].pc = "done" /\ UNCHANGED db)
        /\ (hooks'[d].pc \in DbSteps) => (hooks'[d].trade_state = "SUCCESS")
      ]_vars

C25_Witness ==
    /\ Done(1) /\ Done(2)
    /\ hooks[1].order_no = "RC1" /\ hooks[1].trade_state = "NOTPAY"
    /\ hooks[2].order_no = "RC1" /\ hooks[2].trade_state = ""
    /\ "RC1" \in DOMAIN recharge_orders
    /\ recharge_orders["RC1"].status = "pending"
    /\ user_points_log = <<>>

(* C30: when an endpoint answers SUCCESS to a webhook whose trade_state   *)
(* is SUCCESS, then in the state of the answer the named recharge order   *)
(* is paid and the ledger has a recharge entry for it, or the named       *)
(* subscription order is active and the user's level and expiry are the   *)
(* order's.                                                                *)
C30_SuccessAfterSettlement ==
    [][\A d \in Deliveries :
        (/\ hooks[d].pc # "done"
         /\ hooks'[d].pc = "done"
         /\ hooks'[d].trade_state = "SUCCESS"
         /\ hooks'[d].response.code = "SUCCESS")
        => LET no == hooks'[d].order_no
           IN  IF hooks'[d].endpoint = "recharge"
               THEN /\ no \in DOMAIN recharge_orders'
                    /\ recharge_orders'[no].status = "paid"
                    /\ \E i \in DOMAIN user_points_log' :
                          /\ user_points_log'[i].type = "recharge"
                          /\ user_points_log'[i].related_order_id = no
               ELSE /\ no \in DOMAIN subscription_orders'
                    /\ subscription_orders'[no].status = "active"
                    /\ LET o == subscription_orders'[no]
                       IN  /\ users'[o.user_id].membership_level = o.level
                           /\ users'[o.user_id].membership_expire_at
                                  = o.expire_at
      ]_vars

C30_Witness ==
    /\ Done(1) /\ Done(2)
    /\ hooks[1].endpoint = "recharge" /\ hooks[2].endpoint = "subscription"
    /\ hooks[1].trade_state = "SUCCESS" /\ hooks[2].trade_state = "SUCCESS"
    /\ hooks[1].response.code = "SUCCESS"
    /\ hooks[2].response.code = "SUCCESS"
    /\ recharge_orders[hooks[1].order_no].status = "paid"
    /\ subscription_orders[hooks[2].order_no].status = "active"
    /\ Len(user_points_log) = 1
    /\ users[1].membership_level = "pro"

(* C23: the ledger is an append-only chain: a step leaves the entries     *)
(* there are as they are and appends at most one, and for every user, in  *)
(* creation order, each entry has balance_after = the balance_after of    *)
(* the user's previous entry (0 for the first) + delta.                    *)
C23_AppendOnlyChain ==
    [][/\ Len(user_points_log') \in
             {Len(user_points_log), Len(user_points_log) + 1}
       /\ SubSeq(user_points_log', 1, Len(user_points_log)) = user_points_log
       /\ \A u \in Users :
             LET es == SelectSeq(user_points_log', LAMBDA e : e.user_id = u)
             IN  \A i \in DOMAIN es :
                    es[i].balance_after =
                        (IF i = 1 THEN 0 ELSE es[i - 1].balance_after)
                        + es[i].delta
      ]_vars

(* C29: in every reachable state, under every interleaving of the ledger  *)
(* operations, points_balance >= 0 and free_creation_remaining >= 0, and  *)
(* a recharge credit that found its user is never rejected: it ends by    *)
(* appending its entry.                                                    *)
C29_NeverNegative ==
    [][/\ \A u \in Users :
             /\ users'[u].points_balance >= 0
             /\ users'[u].free_creation_remaining >= 0
       /\ \A d \in Deliveries :
             (hooks[d].pc = "credit_commit" /\ hooks'[d].pc = "done")
             => /\ hooks'[d].error = Ok
                /\ Len(user_points_log') = Len(user_points_log) + 1
                /\ user_points_log'[Len(user_points_log')].type = "recharge"
      ]_vars

C29_Witness ==
    /\ dialect = "sqlite"
    /\ users[1].points_balance = 0
    /\ users[1].free_creation_remaining = 0
    /\ Len(user_points_log) = 3
    /\ user_points_log[1].delta = 10
    /\ user_points_log[2].delta = -10
    /\ user_points_log[3].delta = -10

(* C22: points_balance and free_creation_remaining change only in the     *)
(* committing step of a ledger operation of points_service (a debit, an   *)
(* adjustment, a recharge credit), and membership_level and               *)
(* membership_expire_at only in the committing step of a subscription     *)
(* settlement; every other step, those of update_profile,                 *)
(* admin_update_user, order creation and every administrator's call       *)
(* included, leaves the four fields as they were.                          *)
C22_OnlyPermittedWriters ==
    [][\A u \in DOMAIN users :
        /\ (\/ users'[u].points_balance # users[u].points_balance
            \/ users'[u].free_creation_remaining
                   # users[u].free_creation_remaining)
           => \/ \E c \in Callers :
                    /\ calls[c].pc = "selected"
                    /\ calls[c].op \in LedgerOps
                    /\ calls[c].user_id = u
                    /\ calls'[c].pc = "idle"
              \/ \E d \in Deliveries :
                    /\ hooks[d].pc = "credit_commit"
                    /\ hooks[d].order.user_id = u
                    /\ hooks'[d].pc = "done"
        /\ (\/ users'[u].membership_level # users[u].membership_level
            \/ users'[u].membership_expire_at # users[u].membership_expire_at)
           => \E d \in Deliveries :
                    /\ hooks[d].pc = "subscription_commit"
                    /\ hooks[d].order.user_id = u
                    /\ hooks'[d].pc = "done"
      ]_vars

(* the order of the last order request, when its provider call failed *)
ProviderCallFailed(endpoint, order_no) ==
    /\ last_call.op = (IF endpoint = "recharge" THEN "create_recharge"
                       ELSE "create_subscription")
    /\ last_call.order_no = order_no
    /\ last_call.result # Ok

(* C24: when the provider call of an order request fails or times out,    *)
(* the request ends with an error and the failure changes nothing: the    *)
(* order the request inserted is there, pending unless its webhook has    *)
(* been processed in the meantime, and no order, user or ledger entry is  *)
(* written; and when a SUCCESS webhook for that order has been processed  *)
(* after the failure, the order is settled: the recharge order paid, the  *)
(* subscription order active.                                              *)
C24_RecoverableAfterProviderFailure ==
    [][/\ \A c \in Callers :
             (/\ calls[c].pc = "provider"
              /\ calls'[c].pc = "idle"
              /\ last_call'.result # Ok)
             => /\ last_call'.result.exc # None
                /\ last_call'.order_no = calls[c].order_no
                /\ UNCHANGED db
                /\ LET order == IF calls[c].op = "create_recharge"
                                THEN Select(recharge_orders, calls[c].order_no)
                                ELSE Select(subscription_orders,
                                            calls[c].order_no)
                       webhooks == {d \in Deliveries :
                                       /\ hooks[d].order_no = calls[c].order_no
                                       /\ hooks[d].pc # "idle"}
                   IN  /\ order # NoRow
                       /\ (webhooks = {}) => order.status = "pending"
       /\ \A d \in Deliveries :
             (/\ hooks[d].pc # "done"
              /\ hooks'[d].pc = "done"
              /\ hooks'[d].trade_state = "SUCCESS"
              /\ ProviderCallFailed(hooks'[d].endpoint, hooks'[d].order_no))
             => IF hooks'[d].endpoint = "recharge"
                THEN recharge_orders'[hooks'[d].order_no].status = "paid"
                ELSE subscription_orders'[hooks'[d].order_no].status
                         = "active"
      ]_vars

====
